---- MODULE Spec2Model ----
(***************************************************************************)
(* RTO compliance checker: the provider failover router                    *)
(* (src/ai/modelRouter.js) and the compliance decision engine              *)
(* (src/compliance/complianceChecker.js).                                  *)
(*                                                                         *)
(* Money is counted in units of 1e-8 USD and scores in units of 1/Scale    *)
(* point, so that every quantity of the program is an integer here.        *)
(***************************************************************************)
EXTENDS Integers, Sequences, FiniteSets, TLC

(***************************************************************************)
(* Bounds of the model.                                                    *)
(***************************************************************************)
\* direct callers of router.callWithFailover that may be in flight together
MaxCalls == 2
\* longest violation list and required-element list the scorer is given
MaxViolations == 4
MaxElements == 2
\* longest list of violations an AI judgment carries
MaxAIItems == 3
\* generateImage calls and resetStats calls made on the router
MaxImages == 1
MaxResets == 2
\* requests sent by the second client of the server
MaxBystanderRequests == 2
\* matches findMatches is followed through one by one; further ones are not told apart
MaxMatches == 4
\* URLs given to checkMultiplePages in one call
MaxUrls == 2
\* entries of the models table of the router's configuration
MaxModels == 2
\* most tokens that precede a match in the texts findMatches is given
MaxTokensBefore == 201

Null == "null"

(***************************************************************************)
(* ModelRouter: configuration                                              *)
(***************************************************************************)
\* this.clients
Clients == {"openai", "claude", "deepseek"}

\* the logical model keys a role may name
ModelKeys == {"gpt4_turbo", "claude_sonnet", "deepseek_reasoning", "perplexity_research"}

\* this.config.models[key].provider
models ==
  [k \in ModelKeys |->
     CASE k = "gpt4_turbo" -> "openai"
       [] k = "claude_sonnet" -> "claude"
       [] k = "deepseek_reasoning" -> "deepseek"
       [] OTHER -> "perplexity"]

\* Object.keys(this.config.roles), and a role argument the configuration lacks
Roles == {"COMPLIANCE", "DRAFTING"}
RoleArgs == Roles \cup {"UNKNOWN"}

\* ids of the callWithFailover invocations: 0 is the engine's, the others direct
EngineCall == 0
DirectCalls == 1..MaxCalls
CallIds == {EngineCall} \cup DirectCalls

\* error.message of the errors a provider's generateText throws
ErrorMessages == {"API error: timeout", "API error: rate limit"}

(***************************************************************************)
(* Provider results                                                        *)
(***************************************************************************)
\* an absent (undefined / NaN) number
Undef == -1

\* usage objects as the providers report them; defined = FALSE: result.usage
\* itself is undefined
UsageOpenAI ==
  [defined |-> TRUE, prompt_tokens |-> 1000, completion_tokens |-> 2000,
   total_tokens |-> 3000, input_tokens |-> Undef, output_tokens |-> Undef]
UsageAnthropic ==
  [defined |-> TRUE, prompt_tokens |-> Undef, completion_tokens |-> Undef,
   total_tokens |-> 3000, input_tokens |-> 1000, output_tokens |-> 2000]
UsageNoTotal ==
  [defined |-> TRUE, prompt_tokens |-> 1000, completion_tokens |-> 2000,
   total_tokens |-> Undef, input_tokens |-> Undef, output_tokens |-> Undef]
UsageInputOutput ==
  [defined |-> TRUE, prompt_tokens |-> Undef, completion_tokens |-> Undef,
   total_tokens |-> Undef, input_tokens |-> 1000, output_tokens |-> 2000]
NoUsage ==
  [defined |-> FALSE, prompt_tokens |-> Undef, completion_tokens |-> Undef,
   total_tokens |-> Undef, input_tokens |-> Undef, output_tokens |-> Undef]

\* what generateText of client p puts in result.usage
UsagesOf(p) ==
  CASE p = "claude" -> {UsageAnthropic}
    [] p = "openai" -> {UsageOpenAI, NoUsage}
    [] OTHER -> {UsageOpenAI, UsageNoTotal, UsageInputOutput, NoUsage}

\* result.model of client p (options.model is never passed by the callers)
ModelOf(p) ==
  CASE p = "claude" -> "claude-3-5-sonnet-20241022"
    [] p = "openai" -> "gpt-4-turbo"
    [] OTHER -> "deepseek-chat"

\* costPer1K of the model calculateCost prices, in 1e-8 USD per token
OpenAIInput == 1000
OpenAIOutput == 3000
ClaudeInput == 300
ClaudeOutput == 1500
DeepSeekInput == 14
DeepSeekOutput == 28

\* JavaScript truthiness of a number, and a + b where undefined + x is NaN
Truthy(n) == n # Undef /\ n # 0
Plus(a, b) == IF a = Undef \/ b = Undef THEN Undef ELSE a + b
OrElse(a, b) == IF Truthy(a) THEN a ELSE b

\* client.calculateCost(usage) of client p
calculateCost(p, usage) ==
  IF ~usage.defined THEN 0
  ELSE CASE p = "openai" ->
              OrElse(usage.prompt_tokens, 0) * OpenAIInput
              + OrElse(usage.completion_tokens, 0) * OpenAIOutput
         [] p = "claude" ->
              OrElse(usage.input_tokens, 0) * ClaudeInput
              + OrElse(usage.output_tokens, 0) * ClaudeOutput
         [] OTHER ->
              OrElse(OrElse(usage.prompt_tokens, usage.input_tokens), 0) * DeepSeekInput
              + OrElse(OrElse(usage.completion_tokens, usage.output_tokens), 0) * DeepSeekOutput

(***************************************************************************)
(* ComplianceChecker: rule set                                             *)
(***************************************************************************)
\* scores and weights are held in units of 1/Scale point (12.5 is 25)
Scale == 2

\* let score = 100; Math.min(100, ...)
MaxScore == 100
\* weights[violation.severity] || 10
DefaultWeight == 10
\* score + 5
Bonus == 5

Max(a, b) == IF a >= b THEN a ELSE b
Min(a, b) == IF a <= b THEN a ELSE b

\* Math.round(x / Scale) for x in units of 1/Scale: the nearest integer, halves up
MathRound(x) == (2 * x + Scale) \div (2 * Scale)

\* compliance_thresholds.severity_weights tables, in units of 1/Scale point
SeverityWeights ==
  { [critical |-> 25, moderate |-> 10, warning |-> 4],
    [critical |-> 100, moderate |-> 50, warning |-> 0],
    [critical |-> 0, moderate |-> 15, warning |-> 5] }

\* compliance_thresholds.overall_score tables: four descending cut points
SpreadThresholds ==
  [excellent |-> 90, good |-> 75, acceptable |-> 60, needs_improvement |-> 40]
TightThresholds ==
  [excellent |-> 95, good |-> 94, acceptable |-> 50, needs_improvement |-> 1]
ScoreThresholds == {SpreadThresholds, TightThresholds}

\* the severities a violation may carry; the last is not a key of the weights
Severities == {"critical", "moderate", "warning", "info"}

(***************************************************************************)
(* ComplianceChecker: rules, content and rule evaluation                   *)
(***************************************************************************)
\* an absent (undefined) string field
Undefined == "undefined"

\* a pattern new RegExp rejects
InvalidPattern == "("

\* A text is the sequence of its whitespace-delimited tokens; a rule's pattern is
\* a literal token, matched against each token of the text.
Rule(id, category, severity, pattern, required) ==
  [id |-> id, category |-> category, severity |-> severity, pattern |-> pattern,
   required |-> required, description |-> <<"description of ", id>>,
   correction |-> <<"correction for ", id>>, asqa_reference |-> <<"ASQA ", id>>,
   compliant_example |-> IF id = "cv_001" THEN <<"career pathways">> ELSE <<>>]

\* the rule definitions of data/compliance/asqa-aqf-rules.json, with the given
\* weights and cut points
RuleSet(weights, thresholds) ==
  [loaded |-> TRUE, wellFormed |-> TRUE,
   rules |->
     [critical_violations |->
        << Rule("cv_001", "employment_guarantee", "critical", "guaranteed", FALSE),
           Rule("cv_002", "salary_promise", "critical", "salary", FALSE) >>,
      required_terminology |->
        << Rule("rt_001", "terminology", "moderate", "course", FALSE) >>,
      required_disclaimers |->
        << Rule("rd_001", "disclaimer", "warning", "rpl", TRUE),
           Rule("rd_002", "disclaimer", "warning", "nationally", FALSE) >>,
      web_specific_requirements |->
        << Rule("ws_001", "web", "moderate", Null, TRUE),
           Rule("ws_002", "web", "moderate", Null, TRUE),
           Rule("ws_003", "web", "warning", Null, FALSE) >>],
   compliance_thresholds |->
     [severity_weights |-> weights, overall_score |-> thresholds]]

\* this.rules before loadRules has succeeded
NoRules == [loaded |-> FALSE, wellFormed |-> FALSE]

\* this.rules after loading a file that is valid JSON without the expected keys
ShapelessRules == [loaded |-> TRUE, wellFormed |-> FALSE]

\* estimateLocation(text, index) for the match at token i (i - 1 tokens precede
\* it): before.split(/\s+/) has one element per preceding token and one more
estimateLocation(text, i) ==
  LET wordCount == (i - 1) + 1
  IN IF wordCount < 50 THEN "beginning"
     ELSE IF wordCount < 200 THEN "middle"
     ELSE "end"

\* findMatches(text, rule): the matches in text order
findMatches(text, rule) ==
  IF rule.pattern = Null \/ text = <<>> THEN <<>>
  ELSE IF rule.pattern = InvalidPattern THEN <<>>
  ELSE LET at == SelectSeq([i \in 1..Len(text) |-> i], LAMBDA i : text[i] = rule.pattern)
       IN [k \in 1..Len(at) |->
             [text |-> text[at[k]], index |-> at[k],
              location |-> estimateLocation(text, at[k])]]

\* getRuleRecommendation(rule)
getRuleRecommendation(rule) ==
  IF rule.compliant_example # <<>>
  THEN <<"Example of compliant text: ">> \o rule.compliant_example
  ELSE <<"Remove or revise the violating content to meet ASQA requirements">>

\* the violation a match of a text rule produces
matchViolation(rule, match, recommendation) ==
  [id |-> rule.id, category |-> rule.category, severity |-> rule.severity,
   description |-> rule.description, text_found |-> match.text,
   location |-> match.location, recommendation |-> recommendation,
   asqa_reference |-> rule.asqa_reference]

\* the violation a missing required disclaimer or web element produces
missingViolation(rule, what) ==
  [id |-> rule.id, category |-> rule.category, severity |-> rule.severity,
   description |-> <<what>> \o rule.description, text_found |-> "",
   location |-> "entire_page", recommendation |-> <<"Add: ">> \o rule.description,
   asqa_reference |-> rule.asqa_reference]

passedRule(rule, type) ==
  [id |-> rule.id, category |-> rule.category, type |-> type, status |-> "passed",
   asqa_reference |-> rule.asqa_reference]

requiredElement(rule, type) ==
  [id |-> rule.id, type |-> type, found |-> TRUE, asqa_reference |-> rule.asqa_reference]

EmptyResults ==
  [violations |-> <<>>, required_elements |-> <<>>, passed_rules |-> <<>>]

\* mutant: a rule that matches is reported once, whatever the number of matches
checkTextRuleFirstMatch(acc, text, rule, type, recommendation) ==
  LET matches == findMatches(text, rule)
  IN IF Len(matches) > 0
     THEN [acc EXCEPT !.violations = Append(@, matchViolation(rule, matches[1], recommendation))]
     ELSE [acc EXCEPT !.passed_rules = Append(@, passedRule(rule, type))]

\* one iteration of the critical_violations / required_terminology loops
checkTextRule(acc, text, rule, type, recommendation) ==
  LET matches == findMatches(text, rule)
  IN IF Len(matches) > 0
     THEN [acc EXCEPT !.violations =
             @ \o [k \in 1..Len(matches) |-> matchViolation(rule, matches[k], recommendation)]]
     ELSE [acc EXCEPT !.passed_rules = Append(@, passedRule(rule, type))]

\* mutant: a disclaimer that is found is listed once per match
checkDisclaimerPerMatch(acc, text, rule) ==
  LET matches == findMatches(text, rule)
  IN IF Len(matches) = 0 /\ rule.required
     THEN [acc EXCEPT !.violations =
             Append(@, missingViolation(rule, "Missing required disclaimer: "))]
     ELSE [acc EXCEPT !.required_elements =
             @ \o [k \in 1..Len(matches) |-> requiredElement(rule, "disclaimer")]]

\* one iteration of the required_disclaimers loop
checkDisclaimer(acc, text, rule) ==
  LET matches == findMatches(text, rule)
  IN IF Len(matches) = 0 /\ rule.required
     THEN [acc EXCEPT !.violations =
             Append(@, missingViolation(rule, "Missing required disclaimer: "))]
     ELSE IF Len(matches) > 0
     THEN [acc EXCEPT !.required_elements = Append(@, requiredElement(rule, "disclaimer"))]
     ELSE acc

\* content.links && content.links.some(link => words occur in the link)
someLink(content, words, inHref) ==
  /\ content.links.defined
  /\ \E i \in 1..Len(content.links.items) :
       \/ words \subseteq content.links.items[i].text
       \/ inHref /\ words \subseteq content.links.items[i].href

\* mutant: a rule id without a case in the switch counts as found
webElementFoundByDefault(content, rule) ==
  CASE rule.id = "ws_001" ->
         \/ someLink(content, {"contact"}, TRUE)
         \/ \E i \in 1..Len(content.text) : content.text[i] \in {"phone", "email"}
    [] rule.id = "ws_002" -> someLink(content, {"privacy", "policy"}, FALSE)
    [] rule.id = "ws_003" ->
         \E i \in 1..Len(content.text) : content.text[i] \in {"fee", "cost", "price", "tuition"}
    [] rule.id = "ws_004" -> someLink(content, {"refund", "policy"}, FALSE)
    [] OTHER -> TRUE

\* the switch on rule.id: the structural predicate of a web requirement
webElementFound(content, rule) ==
  CASE rule.id = "ws_001" ->
         \/ someLink(content, {"contact"}, TRUE)
         \/ \E i \in 1..Len(content.text) : content.text[i] \in {"phone", "email"}
    [] rule.id = "ws_002" -> someLink(content, {"privacy", "policy"}, FALSE)
    [] rule.id = "ws_003" ->
         \E i \in 1..Len(content.text) : content.text[i] \in {"fee", "cost", "price", "tuition"}
    [] rule.id = "ws_004" -> someLink(content, {"refund", "policy"}, FALSE)
    [] OTHER -> FALSE

\* mutant: a required web element that is missing is also listed, as not found
checkWebRuleListsMissing(acc, content, rule) ==
  LET found == webElementFound(content, rule)
  IN IF ~found /\ rule.required
     THEN [acc EXCEPT !.violations =
             Append(@, missingViolation(rule, "Missing required web element: ")),
                      !.required_elements =
             Append(@, [requiredElement(rule, "web_requirement") EXCEPT !.found = FALSE])]
     ELSE IF found
     THEN [acc EXCEPT !.required_elements = Append(@, requiredElement(rule, "web_requirement")),
                      !.passed_rules = Append(@, passedRule(rule, "web_requirement"))]
     ELSE acc

\* one iteration of the web_specific_requirements loop
checkWebRule(acc, content, rule) ==
  LET found == webElementFound(content, rule)
  IN IF ~found /\ rule.required
     THEN [acc EXCEPT !.violations =
             Append(@, missingViolation(rule, "Missing required web element: "))]
     ELSE IF found
     THEN [acc EXCEPT !.required_elements = Append(@, requiredElement(rule, "web_requirement")),
                      !.passed_rules = Append(@, passedRule(rule, "web_requirement"))]
     ELSE acc

\* the four loops of performBasicChecks, each over the first n rules of its list
RECURSIVE criticalLoop(_, _, _, _)
criticalLoop(acc, text, list, n) ==
  IF n = 0 THEN acc
  ELSE checkTextRule(criticalLoop(acc, text, list, n - 1), text, list[n],
                     "critical_violation", getRuleRecommendation(list[n]))

RECURSIVE terminologyLoop(_, _, _, _)
terminologyLoop(acc, text, list, n) ==
  IF n = 0 THEN acc
  ELSE checkTextRule(terminologyLoop(acc, text, list, n - 1), text, list[n],
                     "required_terminology", list[n].correction)

RECURSIVE disclaimerLoop(_, _, _, _)
disclaimerLoop(acc, text, list, n) ==
  IF n = 0 THEN acc
  ELSE checkDisclaimer(disclaimerLoop(acc, text, list, n - 1), text, list[n])

RECURSIVE webLoop(_, _, _, _)
webLoop(acc, content, list, n) ==
  IF n = 0 THEN acc
  ELSE checkWebRule(webLoop(acc, content, list, n - 1), content, list[n])

\* performBasicChecks(content, pageType), with this.rules = ruleset
performBasicChecks(content, ruleset) ==
  LET r == ruleset.rules
      a1 == criticalLoop(EmptyResults, content.text, r.critical_violations,
                         Len(r.critical_violations))
      a2 == terminologyLoop(a1, content.text, r.required_terminology,
                            Len(r.required_terminology))
      a3 == disclaimerLoop(a2, content.text, r.required_disclaimers,
                           Len(r.required_disclaimers))
  IN webLoop(a3, content, r.web_specific_requirements,
             Len(r.web_specific_requirements))

(***************************************************************************)
(* ComplianceChecker: the AI judgment and its merge                        *)
(***************************************************************************)
\* a violation object as the AI reports it
AIViolation(id, category, severity, text_found) ==
  [k |-> "object",
   v |-> [id |-> id, category |-> category, severity |-> severity,
          description |-> <<"ai: ", id>>, text_found |-> text_found,
          location |-> "content", recommendation |-> <<"ai fix for ", id>>]]

\* the texts a provider answers the compliance prompt with
TextJudgment ==
  "{\"compliance_score\":60,\"violations\":[guaranteed/employment_guarantee, testimonial/marketing, testimonial/marketing]}"
TextProse == "The page looks mostly compliant."
TextLongProse == "I reviewed the page against the ASQA requirements. ... (1200 characters)"
TextNumber == "{\"violations\":5}"
TextNullItem == "{\"violations\":[null]}"
TextString == "{\"violations\":\"ab\"}"
TextNull == " null"
AITexts == {TextJudgment, TextProse, TextLongProse, TextNumber, TextNullItem, TextString, TextNull, Null}

\* JSON.parse(text): ok = FALSE when it throws; otherwise the value, of which only
\* the kind and the violations member are read
ParseJSON(text) ==
  CASE text = TextJudgment ->
         [ok |-> TRUE, kind |-> "object",
          violations |->
            [k |-> "list",
             items |-> << AIViolation("cv_001", "employment_guarantee", "critical", "guaranteed"),
                          [AIViolation("ai_001", "marketing", "moderate", "testimonial")
                             EXCEPT !.v.recommendation =
                               <<"Include clear contact information and privacy policy link">>],
                          AIViolation("ai_002", "marketing", "urgent", "testimonial") >>]]
    [] text = TextNumber ->
         [ok |-> TRUE, kind |-> "object", violations |-> [k |-> "number", items |-> <<>>]]
    [] text = TextNullItem ->
         [ok |-> TRUE, kind |-> "object",
          violations |-> [k |-> "list", items |-> << [k |-> "null"] >>]]
    [] text = TextString ->
         [ok |-> TRUE, kind |-> "object",
          violations |-> [k |-> "string", items |-> << [k |-> "char"], [k |-> "char"] >>]]
    [] text = TextNull ->
         [ok |-> TRUE, kind |-> "null", violations |-> [k |-> "undefined", items |-> <<>>]]
    [] OTHER -> [ok |-> FALSE]

\* aiResults = null
NoAIResults == [present |-> FALSE]

\* the number of characters of a text the provider answered with
length(text) ==
  CASE text = "" -> 0
    [] text = TextProse -> 32
    [] text = TextLongProse -> 1200
    [] OTHER -> 40

\* text.substring(start, end): the characters of the text from start up to end
substring(text, start, end) ==
  [of |-> text, start |-> Min(start, length(text)), end |-> Min(end, length(text))]

\* the basic structure built when JSON.parse throws
basicStructure(text) ==
  [compliance_score |-> 75,
   recommendations |-> << substring(text, 0, 500) >>,
   summary |-> "AI analysis completed but response format needs refinement"]

\* performAIAnalysis after callWithFailover resolved with result: the parsed
\* judgment, or the basic structure built when JSON.parse throws
aiResultsOf(result) ==
  LET parsed == ParseJSON(result.text)
  IN IF parsed.ok
     THEN [present |-> TRUE, violations |-> parsed.violations, model |-> result.model,
           parseFailed |-> FALSE]
     ELSE [present |-> TRUE, violations |-> [k |-> "list", items |-> <<>>],
           compliance_score |-> basicStructure(result.text).compliance_score,
           recommendations |-> basicStructure(result.text).recommendations,
           summary |-> basicStructure(result.text).summary,
           model |-> result.model, parseFailed |-> TRUE]

\* performAIAnalysis: what checkCompliance holds in aiResults once the router
\* call has ended with outcome o (a rejection is rethrown and caught)
performAIAnalysis(o) ==
  IF o.kind = "result" THEN aiResultsOf(o.result) ELSE NoAIResults

\* the fields of an element of aiResults.violations (absent ones undefined)
itemFields(item) ==
  IF item.k = "object" THEN item.v
  ELSE [id |-> Undefined, category |-> Undefined, severity |-> Undefined,
        description |-> <<>>, text_found |-> Undefined, location |-> Undefined,
        recommendation |-> <<>>]

\* { ...aiViolation, source: 'ai_analysis' }
tagged(fields) ==
  [id |-> fields.id, category |-> fields.category, severity |-> fields.severity,
   description |-> fields.description, text_found |-> fields.text_found,
   location |-> fields.location, recommendation |-> fields.recommendation,
   source |-> "ai_analysis"]

\* mutant: two violations with the same text_found are duplicates
isDuplicateTextOnly(violations, fields) ==
  \E i \in 1..Len(violations) : violations[i].text_found = fields.text_found

\* combined.violations.some(existing => same text_found and same category)
isDuplicate(violations, fields) ==
  \E i \in 1..Len(violations) :
    /\ violations[i].text_found = fields.text_found
    /\ violations[i].category = fields.category

\* the for-of loop of combineResults over items[1..n]; threw: a TypeError ended it
RECURSIVE mergeLoop(_, _, _)
mergeLoop(violations, items, n) ==
  IF n = 0 THEN [threw |-> FALSE, violations |-> violations]
  ELSE LET before == mergeLoop(violations, items, n - 1)
       IN IF before.threw THEN before
          ELSE IF items[n].k = "null" THEN [before EXCEPT !.threw = TRUE]
          ELSE IF isDuplicate(before.violations, itemFields(items[n])) THEN before
          ELSE [before EXCEPT !.violations = Append(@, tagged(itemFields(items[n])))]

\* aiResults.violations is truthy
truthyViolations(v) == v.k \in {"list", "number", "string", "object"}

\* combineResults(basicResults, aiResults); threw: it ended in a TypeError
combineResults(basicResults, aiResults) ==
  IF aiResults.present /\ truthyViolations(aiResults.violations)
  THEN IF aiResults.violations.k \in {"number", "object"}
       THEN [threw |-> TRUE, value |-> basicResults]
       ELSE LET m == mergeLoop(basicResults.violations, aiResults.violations.items,
                               Len(aiResults.violations.items))
            IN [threw |-> m.threw,
                value |-> [basicResults EXCEPT !.violations = m.violations]]
  ELSE [threw |-> FALSE, value |-> basicResults]

\* mutant: each element stays where it occurs last
RECURSIVE uniqueKeepLast(_, _)
uniqueKeepLast(list, n) ==
  IF n = 0 THEN <<>>
  ELSE Append(SelectSeq(uniqueKeepLast(list, n - 1), LAMBDA r : r # list[n]), list[n])

\* [...new Set(list)]: the first occurrence of each element, in order
RECURSIVE unique(_, _)
unique(list, n) ==
  IF n = 0 THEN <<>>
  ELSE LET before == unique(list, n - 1)
       IN IF \E i \in 1..Len(before) : before[i] = list[n] THEN before
          ELSE Append(before, list[n])

\* generateRecommendations(results, pageType)
generateRecommendations(results, pageType) ==
  LET vs == results.violations
      own == [i \in 1..Len(vs) |-> vs[i].recommendation]
      fromViolations == SelectSeq(own, LAMBDA r : r # <<>>)
      forPage ==
        IF pageType = "homepage"
        THEN << <<"Ensure RTO number is prominently displayed on homepage">>,
                <<"Include clear contact information and privacy policy link">> >>
        ELSE IF pageType = "course"
        THEN << <<"Use \"unit of competency\" instead of \"course\" when referring to unit codes">>,
                <<"Include RPL availability information">> >>
        ELSE <<>>
      urgent ==
        IF \E i \in 1..Len(vs) : vs[i].severity = "critical"
        THEN << <<"Immediate action required: Address all critical violations before ASQA audit">> >>
        ELSE <<>>
      all == fromViolations \o forPage \o urgent
  IN unique(all, Len(all))

(***************************************************************************)
(* ComplianceChecker: scoring and classification                           *)
(***************************************************************************)
\* mutant: every violation costs the default weight
violationWeightDefault(weights, violation) == DefaultWeight * Scale

\* weights[violation.severity] || 10, in units of 1/Scale point
violationWeight(weights, violation) ==
  IF violation.severity \in DOMAIN weights /\ weights[violation.severity] # 0
  THEN weights[violation.severity]
  ELSE DefaultWeight * Scale

\* the running score after the deduction loop over violations[1..n]
RECURSIVE deduct(_, _, _)
deduct(weights, violations, n) ==
  IF n = 0 THEN MaxScore * Scale
  ELSE deduct(weights, violations, n - 1) - violationWeight(weights, violations[n])

\* results.required_elements.every(el => el.found)
allRequiredFound(elements) == \A i \in 1..Len(elements) : elements[i].found

\* mutant: the floor at 0 is missing
calculateComplianceScoreNoFloor(results, weights) ==
  LET score == deduct(weights, results.violations, Len(results.violations))
  IN MathRound(IF Len(results.required_elements) > 0
                    /\ allRequiredFound(results.required_elements)
               THEN Min(MaxScore * Scale, score + Bonus * Scale)
               ELSE score)

\* calculateComplianceScore(results), with this.rules...severity_weights = weights
calculateComplianceScore(results, weights) ==
  LET deducted == deduct(weights, results.violations, Len(results.violations))
      score == Max(0, deducted)
  IN MathRound(IF Len(results.required_elements) > 0
                    /\ allRequiredFound(results.required_elements)
               THEN Min(MaxScore * Scale, score + Bonus * Scale)
               ELSE score)

\* mutant: the cut points are fixed in the classifier
determineStatusHardCoded(score, thresholds) ==
  IF score >= 90 THEN "PASS"
  ELSE IF score >= 75 THEN "PASS_WITH_NOTES"
  ELSE IF score >= 60 THEN "NEEDS_REVIEW"
  ELSE IF score >= 40 THEN "ACTION_REQUIRED"
  ELSE "FAIL"

\* determineStatus(score), with this.rules...overall_score = thresholds
determineStatus(score, thresholds) ==
  IF score >= thresholds.excellent THEN "PASS"
  ELSE IF score >= thresholds.good THEN "PASS_WITH_NOTES"
  ELSE IF score >= thresholds.acceptable THEN "NEEDS_REVIEW"
  ELSE IF score >= thresholds.needs_improvement THEN "ACTION_REQUIRED"
  ELSE "FAIL"

VARIABLES
  configured,   \* client name -> isConfigured()
  roles,        \* this.config.roles: role -> [primary, fallback]
  rpc,          \* call id -> position inside callWithFailover
  rrole,        \* call id -> the role argument
  invoked,      \* call id -> the generateText invocations made, in order
  threw,        \* call id -> the errors generateText threw, in order
  resolved,     \* call id -> the results generateText resolved with, in order
  outcome,      \* call id -> what the caller received
  usageStats,   \* this.usageStats: client name -> {calls, tokens, cost}
  totalCost,    \* this.totalCost
  rulesFile,    \* what reading and parsing the rules file gives
  rules,        \* this.rules
  ctorLoad,     \* the loadRules() the constructor started: pending or settled
  cpc,          \* position inside checkCompliance
  cIn,          \* its arguments: content and options
  basic,        \* basicResults, held across the await of the AI analysis
  aiResults,    \* aiResults of checkCompliance
  cOut,         \* what the caller of checkCompliance received
  sIn,          \* the scorer's input (results, or a score), weights and thresholds
  sOut,         \* what calculateComplianceScore / determineStatus returned
  pIn,          \* the arguments of the engine operation applied on its own
  pOut,         \* its progress and what it returned
  images,       \* the generateImage calls that have completed
  resets,       \* the resetStats calls made
  lastOp,       \* the last operation on the router's statistics
  rateLimits,   \* rateLimits: client key -> the timestamps recorded for it
  now,          \* Date.now()
  admitted,     \* client key -> the times of all its requests passed to next()
  response      \* what rateLimit did with the last request

routerVars ==
  <<configured, roles, rpc, rrole, invoked, threw, resolved, outcome, usageStats,
    totalCost>>

engineVars == <<rulesFile, rules, ctorLoad, cpc, cIn, basic, aiResults, cOut>>

scoreVars == <<sIn, sOut>>

partVars == <<pIn, pOut>>

statsVars == <<images, resets, lastOp>>

limiterVars == <<rateLimits, now, admitted, response>>

restVars == <<partVars, statsVars, limiterVars>>

vars == <<routerVars, engineVars, scoreVars, restVars>>

(***************************************************************************)
(* ModelRouter: usage accounting                                           *)
(***************************************************************************)
\* the token total trackUsage accumulates for a usage object
usageTokens(usage) ==
  OrElse(usage.total_tokens,
    OrElse(Plus(usage.prompt_tokens, usage.completion_tokens),
      OrElse(Plus(usage.input_tokens, usage.output_tokens), 0)))

\* this.usageStats[clientName], created on first use
statsOf(stats, clientName) ==
  IF clientName \in DOMAIN stats THEN stats[clientName]
  ELSE [calls |-> 0, tokens |-> 0, cost |-> 0]

\* mutant: only usage.total_tokens is counted
trackUsageStatsTotalOnly(stats, clientName, usage) ==
  LET old == statsOf(stats, clientName)
      new == IF usage.defined
             THEN [calls |-> old.calls + 1,
                   tokens |-> old.tokens + OrElse(usage.total_tokens, 0),
                   cost |-> old.cost + calculateCost(clientName, usage)]
             ELSE [old EXCEPT !.calls = old.calls + 1]
  IN [k \in DOMAIN stats \cup {clientName} |->
        IF k = clientName THEN new ELSE stats[k]]

\* mutant: the entry is written from a copy read before the await, so that the
\* updates made meanwhile are lost
trackUsageStatsStale(stats, clientName, usage) ==
  LET new == IF usage.defined
             THEN [calls |-> 1, tokens |-> usageTokens(usage),
                   cost |-> calculateCost(clientName, usage)]
             ELSE [calls |-> 1, tokens |-> 0, cost |-> 0]
  IN [k \in DOMAIN stats \cup {clientName} |->
        IF k = clientName THEN new ELSE stats[k]]

\* trackUsage(clientName, usage): the new usageStats
trackUsageStats(stats, clientName, usage) ==
  LET old == statsOf(stats, clientName)
      new == IF usage.defined
             THEN [calls |-> old.calls + 1,
                   tokens |-> old.tokens + usageTokens(usage),
                   cost |-> old.cost + calculateCost(clientName, usage)]
             ELSE [old EXCEPT !.calls = old.calls + 1]
  IN [k \in DOMAIN stats \cup {clientName} |->
        IF k = clientName THEN new ELSE stats[k]]

\* trackUsage(clientName, usage): the new totalCost
trackUsageTotal(total, clientName, usage) ==
  IF usage.defined THEN total + calculateCost(clientName, usage) ELSE total

(***************************************************************************)
(* ModelRouter.callWithFailover                                            *)
(***************************************************************************)
\* the client names the role's primary and fallback model keys resolve to
primaryClientName(role) ==
  LET primaryModel == roles[role].primary
  IN IF primaryModel \in DOMAIN models THEN models[primaryModel] ELSE primaryModel

fallbackClientName(role) ==
  LET fallbackModel == roles[role].fallback
  IN IF fallbackModel # Null /\ fallbackModel \in DOMAIN models
     THEN models[fallbackModel] ELSE fallbackModel

\* mutant: the primary is attempted whenever its client exists
primaryUsableUnchecked(name) == name \in Clients

\* primaryClient && primaryClient.isConfigured()
primaryUsable(name) == name \in Clients /\ configured[name]

\* fallbackClientName && fallbackClient && fallbackClient.isConfigured()
fallbackUsable(name) == name # Null /\ name \in Clients /\ configured[name]

NoOutcome == [kind |-> "none"]
Returned(result) == [kind |-> "result", result |-> result]
Thrown(error) == [kind |-> "error", error |-> error]

UnknownRole(role) == [type |-> "UnknownRole", role |-> role]
NoProviderAvailable(role) == [type |-> "NoProviderAvailable", role |-> role]
\* the error object generateText of client p throws in invocation number n of a call
ProviderError(p, n, message) ==
  [type |-> "ProviderError", from |-> p, n |-> n, message |-> message]

\* { ...result, text: result.text || result.content || '' }
normalizedResult(result) ==
  [result EXCEPT !.text = IF result.text = Null THEN "" ELSE result.text]

\* lines 157-180: the fallback tier is entered, or the call ends without one
TryFallback(c) ==
  LET fb == fallbackClientName(rrole[c])
  IN IF fallbackUsable(fb)
     THEN /\ rpc' = [rpc EXCEPT ![c] = "awaitFallback"]
          /\ invoked' = [invoked EXCEPT ![c] = Append(@, [client |-> fb, tier |-> "fallback"])]
          /\ UNCHANGED outcome
     ELSE /\ rpc' = [rpc EXCEPT ![c] = "done"]
          /\ outcome' = [outcome EXCEPT ![c] = Thrown(NoProviderAvailable(rrole[c]))]
          /\ UNCHANGED invoked

\* lines 103-139: the call starts and runs to its first await or to its end
CallStart(c, role) ==
  /\ rpc[c] = "idle"
  /\ rrole' = [rrole EXCEPT ![c] = role]
  /\ IF role \notin DOMAIN roles
     THEN /\ rpc' = [rpc EXCEPT ![c] = "done"]
          /\ outcome' = [outcome EXCEPT ![c] = Thrown(UnknownRole(role))]
          /\ UNCHANGED invoked
     ELSE LET fb == fallbackClientName(role)
          IN IF primaryUsable(primaryClientName(role))
             THEN /\ rpc' = [rpc EXCEPT ![c] = "awaitPrimary"]
                  /\ invoked' = [invoked EXCEPT ![c] =
                        Append(@, [client |-> primaryClientName(role), tier |-> "primary"])]
                  /\ UNCHANGED outcome
             ELSE IF fallbackUsable(fb)
             THEN /\ rpc' = [rpc EXCEPT ![c] = "awaitFallback"]
                  /\ invoked' = [invoked EXCEPT ![c] =
                        Append(@, [client |-> fb, tier |-> "fallback"])]
                  /\ UNCHANGED outcome
             ELSE /\ rpc' = [rpc EXCEPT ![c] = "done"]
                  /\ outcome' = [outcome EXCEPT ![c] = Thrown(NoProviderAvailable(role))]
                  /\ UNCHANGED invoked
  /\ UNCHANGED <<configured, roles, threw, resolved, usageStats, totalCost>>

\* lines 139-151: the primary's generateText resolves
PrimaryReturns(c, result) ==
  /\ rpc[c] = "awaitPrimary"
  /\ usageStats' = trackUsageStats(usageStats, primaryClientName(rrole[c]), result.usage)
  /\ totalCost' = trackUsageTotal(totalCost, primaryClientName(rrole[c]), result.usage)
  /\ outcome' = [outcome EXCEPT ![c] = Returned(normalizedResult(result))]
  /\ rpc' = [rpc EXCEPT ![c] = "done"]
  /\ resolved' = [resolved EXCEPT ![c] = Append(@, result)]
  /\ UNCHANGED <<configured, roles, rrole, invoked, threw>>

\* mutant: the primary's error is not caught
PrimaryThrowsUncaught(c, error) ==
  /\ rpc[c] = "awaitPrimary"
  /\ threw' = [threw EXCEPT ![c] = Append(@, error)]
  /\ outcome' = [outcome EXCEPT ![c] = Thrown(error)]
  /\ rpc' = [rpc EXCEPT ![c] = "done"]
  /\ UNCHANGED <<configured, roles, rrole, invoked, resolved, usageStats, totalCost>>

\* mutant: a failed primary is tried a second time before the fallback
PrimaryThrowsRetried(c, error) ==
  /\ rpc[c] = "awaitPrimary"
  /\ threw' = [threw EXCEPT ![c] = Append(@, error)]
  /\ IF Len(threw[c]) = 0
     THEN /\ invoked' = [invoked EXCEPT ![c] =
                Append(@, [client |-> primaryClientName(rrole[c]), tier |-> "primary"])]
          /\ UNCHANGED <<rpc, outcome>>
     ELSE TryFallback(c)
  /\ UNCHANGED <<configured, roles, rrole, resolved, usageStats, totalCost>>

\* lines 139, 152-178: the primary's generateText rejects
PrimaryThrows(c, error) ==
  /\ rpc[c] = "awaitPrimary"
  /\ threw' = [threw EXCEPT ![c] = Append(@, error)]
  /\ TryFallback(c)
  /\ UNCHANGED <<configured, roles, rrole, resolved, usageStats, totalCost>>

\* lines 164-176: the fallback's generateText resolves
FallbackReturns(c, result) ==
  /\ rpc[c] = "awaitFallback"
  /\ usageStats' = trackUsageStats(usageStats, fallbackClientName(rrole[c]), result.usage)
  /\ totalCost' = trackUsageTotal(totalCost, fallbackClientName(rrole[c]), result.usage)
  /\ outcome' = [outcome EXCEPT ![c] = Returned(normalizedResult(result))]
  /\ rpc' = [rpc EXCEPT ![c] = "done"]
  /\ resolved' = [resolved EXCEPT ![c] = Append(@, result)]
  /\ UNCHANGED <<configured, roles, rrole, invoked, threw>>

\* mutant: the fallback's error is caught and wrapped in a new error
FallbackThrowsWrapped(c, error) ==
  /\ rpc[c] = "awaitFallback"
  /\ threw' = [threw EXCEPT ![c] = Append(@, error)]
  /\ outcome' = [outcome EXCEPT ![c] = Thrown([type |-> "Wrapped", cause |-> error])]
  /\ rpc' = [rpc EXCEPT ![c] = "done"]
  /\ UNCHANGED <<configured, roles, rrole, invoked, resolved, usageStats, totalCost>>

\* mutant: the fallback's error is caught like the primary's, and the call falls
\* through to the final throw
FallbackThrowsSwallowed(c, error) ==
  /\ rpc[c] = "awaitFallback"
  /\ threw' = [threw EXCEPT ![c] = Append(@, error)]
  /\ outcome' = [outcome EXCEPT ![c] = Thrown(NoProviderAvailable(rrole[c]))]
  /\ rpc' = [rpc EXCEPT ![c] = "done"]
  /\ UNCHANGED <<configured, roles, rrole, invoked, resolved, usageStats, totalCost>>

\* line 164: the fallback's generateText rejects, outside any try block
FallbackThrows(c, error) ==
  /\ rpc[c] = "awaitFallback"
  /\ threw' = [threw EXCEPT ![c] = Append(@, error)]
  /\ outcome' = [outcome EXCEPT ![c] = Thrown(error)]
  /\ rpc' = [rpc EXCEPT ![c] = "done"]
  /\ UNCHANGED <<configured, roles, rrole, invoked, resolved, usageStats, totalCost>>

\* the texts a provider answers a direct caller's prompt with
DirectTexts == {"4"}

\* the results generateText of client p may resolve to, given the texts
ResultsOf(p, texts) ==
  {[text |-> t, usage |-> u, model |-> ModelOf(p)] : t \in texts, u \in UsagesOf(p)}

\* the client whose generateText call c is waiting for
awaited(c) == invoked[c][Len(invoked[c])].client

\* one step of the provider call c is suspended on
ProviderReturns(c, texts) ==
  \E result \in ResultsOf(awaited(c), texts) :
    \/ PrimaryReturns(c, result)
    \/ FallbackReturns(c, result)

ProviderThrows(c) ==
  \E message \in ErrorMessages :
    \/ PrimaryThrows(c, ProviderError(awaited(c), Len(invoked[c]), message))
    \/ FallbackThrows(c, ProviderError(awaited(c), Len(invoked[c]), message))

\* the primary/fallback pairs the COMPLIANCE role may be configured with
RoleConfigs == [primary : ModelKeys, fallback : ModelKeys \cup {Null}]

\* roles.DRAFTING of getDefaultConfig: client names used directly as model keys
DraftingConfig == [primary |-> "openai", fallback |-> "claude"]

RouterInit ==
  /\ configured \in [Clients -> BOOLEAN]
  /\ \E rc \in RoleConfigs :
       roles = [r \in Roles |-> IF r = "COMPLIANCE" THEN rc ELSE DraftingConfig]
  /\ rpc = [c \in CallIds |-> "idle"]
  /\ rrole = [c \in CallIds |-> Null]
  /\ invoked = [c \in CallIds |-> <<>>]
  /\ threw = [c \in CallIds |-> <<>>]
  /\ resolved = [c \in CallIds |-> <<>>]
  /\ outcome = [c \in CallIds |-> NoOutcome]
  /\ usageStats = [k \in {} |-> 0]
  /\ totalCost = 0

DirectCall == \E c \in DirectCalls, role \in RoleArgs : CallStart(c, role)
DirectReturns == \E c \in DirectCalls : rpc[c] \in {"awaitPrimary", "awaitFallback"} /\ ProviderReturns(c, DirectTexts)
DirectThrows == \E c \in DirectCalls : rpc[c] \in {"awaitPrimary", "awaitFallback"} /\ ProviderThrows(c)

\* no scoring is going on
ScoreIdle == sIn = [op |-> "none"] /\ sOut = [done |-> FALSE]

\* no engine has been constructed
EngineIdle ==
  /\ rulesFile = [kind |-> "unreadable"]
  /\ rules = NoRules
  /\ ctorLoad = "settled"
  /\ cpc = "idle"
  /\ cIn = [given |-> FALSE]
  /\ basic = EmptyResults
  /\ aiResults = NoAIResults
  /\ cOut = NoOutcome

\* no engine operation is applied on its own
PartIdle == pIn = [op |-> "none"] /\ pOut = [done |-> FALSE]

\* no image has been generated and the statistics have not been touched
StatsIdle == images = 0 /\ resets = 0 /\ lastOp = "none"

\* the server has received no request
LimiterIdle ==
  /\ rateLimits = [k \in {} |-> <<>>]
  /\ now = 0
  /\ admitted = [k \in {} |-> <<>>]
  /\ response = [status |-> "none"]

RestIdle == PartIdle /\ StatsIdle /\ LimiterIdle

Init == RouterInit /\ EngineIdle /\ ScoreIdle /\ RestIdle

Next ==
  \/ DirectCall /\ UNCHANGED <<engineVars, scoreVars, restVars>>
  \/ DirectReturns /\ UNCHANGED <<engineVars, scoreVars, restVars>>
  \/ DirectThrows /\ UNCHANGED <<engineVars, scoreVars, restVars>>

Spec == Init /\ [][Next]_vars

(***************************************************************************)
(* The scorer and the classifier on their own                              *)
(***************************************************************************)
\* the router before any call, with nothing configured
RouterIdle ==
  /\ configured = [p \in Clients |-> FALSE]
  /\ roles = [r \in Roles |-> DraftingConfig]
  /\ rpc = [c \in CallIds |-> "idle"]
  /\ rrole = [c \in CallIds |-> Null]
  /\ invoked = [c \in CallIds |-> <<>>]
  /\ threw = [c \in CallIds |-> <<>>]
  /\ resolved = [c \in CallIds |-> <<>>]
  /\ outcome = [c \in CallIds |-> NoOutcome]
  /\ usageStats = [k \in {} |-> 0]
  /\ totalCost = 0

\* all sequences over S of length at most n
SeqsUpTo(S, n) == UNION {[1..k -> S] : k \in 0..n}

\* violation lists (only the severity is read) and required-element lists
ViolationLists == SeqsUpTo([severity : Severities], MaxViolations)
ElementLists == SeqsUpTo([found : BOOLEAN], MaxElements)

ScoreInit ==
  /\ sIn \in
       [op : {"score"}, violations : ViolationLists, required_elements : ElementLists,
        weights : SeverityWeights, thresholds : ScoreThresholds]
       \cup [op : {"status"}, score : 0..MaxScore, thresholds : ScoreThresholds]
  /\ sOut = [done |-> FALSE]

\* checkCompliance lines 55 and 67-68: the final score and its status
Score ==
  /\ sIn.op = "score"
  /\ ~sOut.done
  /\ LET finalScore == calculateComplianceScore(sIn, sIn.weights)
     IN sOut' = [done |-> TRUE, score |-> finalScore,
                 status |-> determineStatus(finalScore, sIn.thresholds)]
  /\ UNCHANGED <<routerVars, engineVars, sIn, restVars>>

\* generateSummaryReport line 519: the status of a given score
Classify ==
  /\ sIn.op = "status"
  /\ ~sOut.done
  /\ sOut' = [done |-> TRUE, score |-> sIn.score,
              status |-> determineStatus(sIn.score, sIn.thresholds)]
  /\ UNCHANGED <<routerVars, engineVars, sIn, restVars>>

InitScore == RouterIdle /\ EngineIdle /\ ScoreInit /\ RestIdle

NextScore == Score \/ Classify

SpecScore == InitScore /\ [][NextScore]_vars


(***************************************************************************)
(* ComplianceChecker.checkCompliance                                       *)
(***************************************************************************)
RulesUnavailable == [type |-> "RulesUnavailable", message |-> "Compliance rules not available"]
ComplianceCheckFailed(cause) == [type |-> "ComplianceCheckFailed", cause |-> cause]

\* mutant: any configured client counts
isAIConfiguredAnyClient == \E name \in Clients : configured[name]

\* isAIConfigured()
isAIConfigured == configured["claude"] \/ configured["openai"]

\* JSON.parse(rulesData) of a readable rules file
loadedRules(file) == IF file.kind = "valid" THEN file.data ELSE ShapelessRules

\* lines 51-83: combine, score, recommend and build the result (or line 85)
finish(ruleset, in, basicResults, judgment) ==
  LET combined == combineResults(basicResults, judgment)
      thresholds == ruleset.compliance_thresholds
      finalScore == calculateComplianceScore(combined.value, thresholds.severity_weights)
  IN IF combined.threw THEN Thrown(ComplianceCheckFailed("TypeError"))
     ELSE Returned(
            [url |-> in.options.url, page_type |-> in.options.pageType,
             compliance_score |-> finalScore,
             status |-> determineStatus(finalScore, thresholds.overall_score),
             violations |-> combined.value.violations,
             required_elements |-> combined.value.required_elements,
             passed_rules |-> combined.value.passed_rules,
             recommendations |->
               IF in.options.includeRecommendations
               THEN generateRecommendations(combined.value, in.options.pageType)
               ELSE <<>>,
             ai_analysis |->
               IF judgment.present
               THEN [present |-> TRUE, model_used |-> judgment.model]
               ELSE [present |-> FALSE]])

\* lines 37-49 (and on to 83 without AI): checkCompliance once this.rules is set
RunChecks(ruleset, in) ==
  IF ~ruleset.wellFormed
  THEN /\ cpc' = "done"
       /\ cOut' = Thrown(ComplianceCheckFailed("TypeError"))
       /\ UNCHANGED <<basic, routerVars>>
  ELSE LET basicResults == performBasicChecks(in.content, ruleset)
       IN /\ basic' = basicResults
          /\ IF in.options.useAI /\ isAIConfigured
             THEN /\ cpc' = "awaitAI"
                  /\ CallStart(EngineCall, "COMPLIANCE")
                  /\ UNCHANGED cOut
             ELSE /\ cpc' = "done"
                  /\ cOut' = finish(ruleset, in, basicResults, NoAIResults)
                  /\ UNCHANGED routerVars

\* constructor, line 12: the loadRules() nobody awaits settles
ConstructorLoaded ==
  /\ ctorLoad = "pending"
  /\ ctorLoad' = "settled"
  /\ rules' = IF rulesFile.kind = "unreadable" THEN rules ELSE loadedRules(rulesFile)
  /\ UNCHANGED <<rulesFile, cpc, cIn, basic, aiResults, cOut, routerVars>>

\* lines 25-49: checkCompliance(content, options) is called
CheckStart(content, options) ==
  /\ cpc = "idle"
  /\ cIn' = [given |-> TRUE, content |-> content, options |-> options]
  /\ IF ~rules.loaded
     THEN /\ cpc' = "loadRules"
          /\ UNCHANGED <<basic, cOut, routerVars>>
     ELSE RunChecks(rules, [content |-> content, options |-> options])
  /\ UNCHANGED <<rulesFile, rules, ctorLoad, aiResults>>

\* lines 15-23, 27: the awaited loadRules() settles
CheckRulesLoaded ==
  /\ cpc = "loadRules"
  /\ IF rulesFile.kind = "unreadable"
     THEN /\ cpc' = "done"
          /\ cOut' = Thrown(RulesUnavailable)
          /\ UNCHANGED <<rules, basic, routerVars>>
     ELSE /\ rules' = loadedRules(rulesFile)
          /\ RunChecks(loadedRules(rulesFile), cIn)
  /\ UNCHANGED <<rulesFile, ctorLoad, cIn, aiResults>>

\* lines 45-83: the awaited performAIAnalysis settles
CheckAIDone ==
  /\ cpc = "awaitAI"
  /\ rpc[EngineCall] = "done"
  /\ cpc' = "done"
  /\ aiResults' = performAIAnalysis(outcome[EngineCall])
  /\ cOut' = finish(rules, cIn, basic, aiResults')
  /\ UNCHANGED <<rulesFile, rules, ctorLoad, cIn, basic, routerVars>>

\* the provider the engine's router call waits for answers, or fails
EngineReturns ==
  /\ rpc[EngineCall] \in {"awaitPrimary", "awaitFallback"}
  /\ ProviderReturns(EngineCall, AITexts)
  /\ UNCHANGED engineVars

EngineThrows ==
  /\ rpc[EngineCall] \in {"awaitPrimary", "awaitFallback"}
  /\ ProviderThrows(EngineCall)
  /\ UNCHANGED engineVars

\* page texts (token sequences) and link lists the engine is given
TextSamples ==
  { <<>>,
    <<"welcome", "rpl", "fee", "phone">>,
    <<"guaranteed", "salary", "guaranteed", "salary">>,
    <<"guaranteed", "course">> }

LinkSamples ==
  { [defined |-> FALSE, items |-> <<>>],
    [defined |-> TRUE,
     items |-> << [text |-> {"contact", "us"}, href |-> {"contact"}],
                  [text |-> {"privacy", "policy"}, href |-> {"privacy"}] >>] }

Contents == [text : TextSamples, links : LinkSamples]

Options ==
  [url : {"https://example.edu.au"}, pageType : {"homepage", "course", "general"},
   includeRecommendations : BOOLEAN, useAI : BOOLEAN]

\* the rules file: unreadable or not JSON, JSON of another shape, or rule definitions
RulesFiles ==
  { [kind |-> "unreadable"], [kind |-> "shapeless"] }
  \cup { [kind |-> "valid", data |-> RuleSet(w, SpreadThresholds)] : w \in SeverityWeights }

\* the COMPLIANCE role as the engine's router may have it configured
EngineRoleConfigs ==
  { [primary |-> "claude_sonnet", fallback |-> "gpt4_turbo"],
    [primary |-> "deepseek_reasoning", fallback |-> Null],
    [primary |-> "perplexity_research", fallback |-> "claude_sonnet"] }

InitEngine ==
  /\ configured \in [Clients -> BOOLEAN]
  /\ \E rc \in EngineRoleConfigs :
       roles = [r \in Roles |-> IF r = "COMPLIANCE" THEN rc ELSE DraftingConfig]
  /\ rpc = [c \in CallIds |-> "idle"]
  /\ rrole = [c \in CallIds |-> Null]
  /\ invoked = [c \in CallIds |-> <<>>]
  /\ threw = [c \in CallIds |-> <<>>]
  /\ resolved = [c \in CallIds |-> <<>>]
  /\ outcome = [c \in CallIds |-> NoOutcome]
  /\ usageStats = [k \in {} |-> 0]
  /\ totalCost = 0
  /\ rulesFile \in RulesFiles
  /\ rules = NoRules
  /\ ctorLoad = "pending"
  /\ cpc = "idle"
  /\ cIn = [given |-> FALSE]
  /\ basic = EmptyResults
  /\ aiResults = NoAIResults
  /\ cOut = NoOutcome
  /\ ScoreIdle
  /\ RestIdle

NextEngine ==
  \/ ConstructorLoaded /\ UNCHANGED <<scoreVars, restVars>>
  \/ (\E content \in Contents, options \in Options : CheckStart(content, options))
       /\ UNCHANGED <<scoreVars, restVars>>
  \/ CheckRulesLoaded /\ UNCHANGED <<scoreVars, restVars>>
  \/ EngineReturns /\ UNCHANGED <<scoreVars, restVars>>
  \/ EngineThrows /\ UNCHANGED <<scoreVars, restVars>>
  \/ CheckAIDone /\ UNCHANGED <<scoreVars, restVars>>

SpecEngine == InitEngine /\ [][NextEngine]_vars

(***************************************************************************)
(* ModelRouter: generateImage, trackCost and resetStats                    *)
(***************************************************************************)
\* options.size of generateImage; Null: none given
ImageSizes == {"1024x1024", Null}

\* client.calculateImageCost(options.size || '1792x1024'), in 1e-8 USD
calculateImageCost(size) ==
  CASE size = "1024x1024" -> 4000000
    [] size = "1792x1024" -> 8000000
    [] size = "1024x1792" -> 8000000
    [] OTHER -> 8000000

\* trackCost(clientName, cost): the new usageStats
trackCostStats(stats, clientName, cost) ==
  LET old == statsOf(stats, clientName)
  IN [k \in DOMAIN stats \cup {clientName} |->
        IF k = clientName THEN [old EXCEPT !.cost = old.cost + cost] ELSE stats[k]]

\* mutant: the cost is booked on the provider only
trackCostTotalForgotten(total, cost) == total

\* trackCost(clientName, cost): the new totalCost
trackCostTotal(total, cost) == total + cost

\* lines 186-200: generateImage resolves and its cost is tracked
ImageReturns(size) ==
  /\ images < MaxImages
  /\ configured["openai"]
  /\ images' = images + 1
  /\ LET cost == calculateImageCost(IF size = Null THEN "1792x1024" ELSE size)
     IN /\ usageStats' = trackCostStats(usageStats, "openai", cost)
        /\ totalCost' = trackCostTotal(totalCost, cost)
  /\ lastOp' = "trackCost"
  /\ UNCHANGED <<configured, roles, rpc, rrole, invoked, threw, resolved, outcome, resets>>

\* lines 189-194: generateImage throws, unconfigured or rejected by the provider
ImageThrows ==
  /\ images < MaxImages
  /\ images' = images + 1
  /\ lastOp' = "generateImage failed"
  /\ UNCHANGED <<routerVars, resets>>

\* lines 301-304: resetStats()
ResetStats ==
  /\ resets < MaxResets
  /\ resets' = resets + 1
  /\ totalCost' = 0
  /\ usageStats' = [k \in {} |-> 0]
  /\ lastOp' = "resetStats"
  /\ UNCHANGED <<configured, roles, rpc, rrole, invoked, threw, resolved, outcome, images>>

\* a caller asks for a compliance judgment
ComplianceCall == \E c \in DirectCalls : CallStart(c, "COMPLIANCE")

\* roles.COMPLIANCE of getDefaultConfig, by model key
ComplianceConfig == [primary |-> "claude_sonnet", fallback |-> "gpt4_turbo"]

InitStats ==
  /\ configured \in [Clients -> BOOLEAN]
  /\ roles = [r \in Roles |-> IF r = "COMPLIANCE" THEN ComplianceConfig ELSE DraftingConfig]
  /\ rpc = [c \in CallIds |-> "idle"]
  /\ rrole = [c \in CallIds |-> Null]
  /\ invoked = [c \in CallIds |-> <<>>]
  /\ threw = [c \in CallIds |-> <<>>]
  /\ resolved = [c \in CallIds |-> <<>>]
  /\ outcome = [c \in CallIds |-> NoOutcome]
  /\ usageStats = [k \in {} |-> 0]
  /\ totalCost = 0
  /\ EngineIdle
  /\ ScoreIdle
  /\ RestIdle

NextStats ==
  \/ ComplianceCall /\ lastOp' = "callWithFailover"
       /\ UNCHANGED <<engineVars, scoreVars, partVars, limiterVars, images, resets>>
  \/ DirectReturns /\ lastOp' = "trackUsage"
       /\ UNCHANGED <<engineVars, scoreVars, partVars, limiterVars, images, resets>>
  \/ DirectThrows /\ lastOp' = "generateText failed"
       /\ UNCHANGED <<engineVars, scoreVars, partVars, limiterVars, images, resets>>
  \/ (\E size \in ImageSizes : ImageReturns(size))
       /\ UNCHANGED <<engineVars, scoreVars, partVars, limiterVars>>
  \/ ImageThrows /\ UNCHANGED <<engineVars, scoreVars, partVars, limiterVars>>
  \/ ResetStats /\ UNCHANGED <<engineVars, scoreVars, partVars, limiterVars>>

SpecStats == InitStats /\ [][NextStats]_vars

(***************************************************************************)
(* The server's rateLimit middleware                                       *)
(***************************************************************************)
\* RATE_LIMIT_WINDOW in milliseconds, RATE_LIMIT_REQUESTS
RATE_LIMIT_WINDOW == 60000
RATE_LIMIT_REQUESTS == 20

\* req.ip of the clients: one that sends any number of requests, and a bystander
BusyClient == "10.0.0.1"
Bystander == "10.0.0.2"
ClientKeys == {BusyClient, Bystander}

\* the values Date.now() takes when requests arrive
TimePoints == {0, 59999, 60000}

\* rateLimits.get(key), after line 61-63 has created the entry
stored(key) == IF key \in DOMAIN rateLimits THEN rateLimits[key] ELSE <<>>

\* rateLimits.get(key).filter(timestamp => timestamp > windowStart)
recent(list, windowStart) == SelectSeq(list, LAMBDA timestamp : timestamp > windowStart)

\* mutant: one request more is let through
limitReachedLate(requests) == Len(requests) > RATE_LIMIT_REQUESTS

\* requests.length >= RATE_LIMIT_REQUESTS
limitReached(requests) == Len(requests) >= RATE_LIMIT_REQUESTS

\* lines 56-79: rateLimit(req, res, next) for a request of client key; the
\* middleware of /api/scan, /api/batch-scan and /api/extract, which reads
\* nothing of the request but its address
RateLimit(key) ==
  /\ key = Bystander => Len(stored(key)) < MaxBystanderRequests
  /\ LET windowStart == now - RATE_LIMIT_WINDOW
         requests == recent(stored(key), windowStart)
     IN IF limitReached(requests)
        THEN /\ response' = [key |-> key, status |-> "429"]
             /\ rateLimits' = [k \in DOMAIN rateLimits \cup {key} |-> stored(k)]
             /\ UNCHANGED admitted
        ELSE /\ response' = [key |-> key, status |-> "next"]
             /\ rateLimits' = [k \in DOMAIN rateLimits \cup {key} |->
                                 IF k = key THEN Append(requests, now) ELSE rateLimits[k]]
             /\ admitted' = [k \in DOMAIN admitted \cup {key} |->
                               IF k = key
                               THEN Append(IF k \in DOMAIN admitted THEN admitted[k] ELSE <<>>, now)
                               ELSE admitted[k]]
  /\ UNCHANGED now

\* time passes between two requests
Tick ==
  /\ \E t \in TimePoints : t > now /\ now' = t
  /\ UNCHANGED <<rateLimits, admitted, response>>

InitLimiter ==
  /\ RouterIdle
  /\ EngineIdle
  /\ ScoreIdle
  /\ PartIdle
  /\ StatsIdle
  /\ LimiterIdle

NextLimiter ==
  \/ (\E key \in ClientKeys : RateLimit(key))
       /\ UNCHANGED <<routerVars, engineVars, scoreVars, partVars, statsVars>>
  \/ Tick /\ UNCHANGED <<routerVars, engineVars, scoreVars, partVars, statsVars>>

SpecLimiter == InitLimiter /\ [][NextLimiter]_vars

(***************************************************************************)
(* combineResults, one iteration of its loop at a time                     *)
(***************************************************************************)
\* the weight table of the rule sets the engine operations are applied with
StandardWeights == [critical |-> 25, moderate |-> 10, warning |-> 4]

\* the AI violations a judgment may list: a repeat of a rule violation, one that
\* differs from it in case only, one that differs in category only, a new one
AIViolationSamples ==
  { AIViolation("cv_001", "employment_guarantee", "critical", "guaranteed"),
    AIViolation("ai_001", "employment_guarantee", "critical", "Guaranteed"),
    AIViolation("ai_002", "marketing", "moderate", "guaranteed"),
    AIViolation("ai_003", "marketing", "moderate", "testimonial") }

\* aiResults with a list of at most MaxAIItems violations
AIResultSamples ==
  { [present |-> TRUE, violations |-> [k |-> "list", items |-> items],
     model |-> "claude-3-5-sonnet-20241022", parseFailed |-> FALSE] :
    items \in SeqsUpTo(AIViolationSamples, MaxAIItems) }

\* mutant: combined.violations is the caller's array itself
spreadAliased(list) == [array |-> "basicResults.violations", items |-> list]

\* [...list]: a new array holding the elements of list
spread(list) == [array |-> "new", items |-> list]

\* array.push(item), seen from the caller's basicResults.violations
pushSeenByInput(array, input, item) ==
  IF array.array = "basicResults.violations" THEN Append(input, item) ELSE input

\* the basicResults and aiResults combineResults is given; given keeps the rule
\* violations as they were when the call was made
CombineInit ==
  /\ pIn \in
       { [op |-> "combine", basicResults |-> b, aiResults |-> a,
          given |-> b.violations] :
         b \in {performBasicChecks(c, RuleSet(StandardWeights, SpreadThresholds)) :
                  c \in Contents},
         a \in AIResultSamples }
  /\ pOut = [done |-> FALSE]

\* lines 336-343: combined is built and the loop is entered
CombineBegin ==
  /\ pIn.op = "combine"
  /\ pOut = [done |-> FALSE]
  /\ pOut' = [done |-> FALSE, pos |-> 0,
              combined |-> [violations |-> spread(pIn.basicResults.violations),
                            required_elements |-> pIn.basicResults.required_elements,
                            passed_rules |-> pIn.basicResults.passed_rules]]
  /\ UNCHANGED pIn

\* lines 345-357: one iteration of the for-of loop
CombineStep ==
  /\ pIn.op = "combine"
  /\ ~pOut.done
  /\ "pos" \in DOMAIN pOut
  /\ pOut.pos < Len(pIn.aiResults.violations.items)
  /\ LET aiViolation == itemFields(pIn.aiResults.violations.items[pOut.pos + 1])
         array == pOut.combined.violations
     IN IF isDuplicate(array.items, aiViolation)
        THEN /\ pOut' = [pOut EXCEPT !.pos = @ + 1]
             /\ UNCHANGED pIn
        ELSE /\ pOut' = [pOut EXCEPT !.pos = @ + 1,
                           !.combined.violations.items = Append(@, tagged(aiViolation))]
             /\ pIn' = [pIn EXCEPT !.basicResults.violations =
                          pushSeenByInput(array, @, tagged(aiViolation))]

\* line 360: return combined
CombineEnd ==
  /\ pIn.op = "combine"
  /\ ~pOut.done
  /\ "pos" \in DOMAIN pOut
  /\ pOut.pos = Len(pIn.aiResults.violations.items)
  /\ pOut' = [done |-> TRUE,
              result |-> [violations |-> pOut.combined.violations.items,
                          required_elements |-> pOut.combined.required_elements,
                          passed_rules |-> pOut.combined.passed_rules]]
  /\ UNCHANGED pIn

(***************************************************************************)
(* findMatches / estimateLocation and performBasicChecks on their own       *)
(***************************************************************************)
\* a text in which k other tokens precede the one token the rule matches
TextWithMatchAfter(k) == [i \in 1..(k + 1) |-> IF i <= k THEN "word" ELSE "guaranteed"]

\* the text and rule findMatches is given; before is the number of
\* whitespace-delimited tokens that precede the match
MatchInit ==
  /\ pIn \in
       { [op |-> "findMatches", text |-> TextWithMatchAfter(k), before |-> k,
          rule |-> Rule("cv_001", "employment_guarantee", "critical", "guaranteed", FALSE)] :
         k \in 0..MaxTokensBefore }
  /\ pOut = [done |-> FALSE]

\* lines 425-446: findMatches(text, rule)
MatchText ==
  /\ pIn.op = "findMatches"
  /\ ~pOut.done
  /\ pOut' = [done |-> TRUE, matches |-> findMatches(pIn.text, pIn.rule)]
  /\ UNCHANGED pIn

\* the ids of the rules that carry a text pattern
PatternRuleIds == {"cv_001", "cv_002", "rt_001", "rd_001", "rd_002"}

\* a rule list in which the pattern of rule id is one new RegExp rejects
malformedIn(list, id) ==
  [i \in 1..Len(list) |->
     IF list[i].id = id THEN [list[i] EXCEPT !.pattern = InvalidPattern] ELSE list[i]]

\* the rule set in which the pattern of rule id is malformed
RuleSetWithMalformed(id) ==
  LET ruleset == RuleSet(StandardWeights, SpreadThresholds)
  IN [ruleset EXCEPT
        !.rules.critical_violations = malformedIn(@, id),
        !.rules.required_terminology = malformedIn(@, id),
        !.rules.required_disclaimers = malformedIn(@, id)]

\* the content performBasicChecks is given, and the rule whose pattern is malformed
BasicInit ==
  /\ pIn \in [op : {"performBasicChecks"}, content : Contents, malformed : PatternRuleIds]
  /\ pOut = [done |-> FALSE]

\* lines 89-264: performBasicChecks(content, pageType)
BasicChecks ==
  /\ pIn.op = "performBasicChecks"
  /\ ~pOut.done
  /\ pOut' = [done |-> TRUE,
              result |-> performBasicChecks(pIn.content, RuleSetWithMalformed(pIn.malformed))]
  /\ UNCHANGED pIn

\* a rule set with disclaimers that are and are not required, and with web
\* requirements for every case of the switch and for ids the switch does not know
RuleSetWithRequired ==
  LET ruleset == RuleSet(StandardWeights, SpreadThresholds)
  IN [ruleset EXCEPT
        !.rules.web_specific_requirements =
          @ \o << Rule("ws_004", "web", "warning", Null, TRUE),
                  Rule("ws_005", "web", "moderate", Null, TRUE),
                  Rule("ws_006", "web", "warning", Null, FALSE) >>]

\* page texts and link lists for the required disclaimers and web requirements
RequiredTexts ==
  { <<>>,
    <<"rpl", "nationally", "rpl">>,
    <<"welcome", "rpl", "fee", "phone">>,
    <<"course", "email">> }

RequiredLinks ==
  LinkSamples
  \cup { [defined |-> TRUE,
          items |-> << [text |-> {"refund", "policy"}, href |-> {"refunds"}],
                      [text |-> {"about"}, href |-> {"contact"}] >>],
         [defined |-> TRUE, items |-> <<>>] }

\* the content performBasicChecks is given with the rule set RuleSetWithRequired
RequiredInit ==
  /\ pIn \in [op : {"requiredChecks"}, content : [text : RequiredTexts, links : RequiredLinks]]
  /\ pOut = [done |-> FALSE]

\* lines 89-264: performBasicChecks(content, pageType)
RequiredChecks ==
  /\ pIn.op = "requiredChecks"
  /\ ~pOut.done
  /\ pOut' = [done |-> TRUE, result |-> performBasicChecks(pIn.content, RuleSetWithRequired)]
  /\ UNCHANGED pIn

(***************************************************************************)
(* findMatches, one regex.exec at a time                                   *)
(***************************************************************************)
\* a pattern that matches the empty string at every position, such as "x*"
EmptyMatchPattern == "x*"

\* rule.flags; Null: the rule has none
FlagValues == {Null, "", "gi", "i"}

\* rule.flags || 'gi'
flagsOf(rule) == IF rule.flags \in {Null, ""} THEN "gi" ELSE rule.flags

\* the regular expression has the global flag
global(flags) == flags \in {"g", "gi"}

\* regex.exec(text) from position start (the number of tokens passed): the match
\* found, with the position where it ends, or none
exec(text, pattern, start) ==
  IF pattern = EmptyMatchPattern
  THEN [found |-> TRUE, text |-> "", index |-> start + 1, end |-> start]
  ELSE LET at == {i \in (start + 1)..Len(text) : text[i] = pattern}
       IN IF at = {} THEN [found |-> FALSE, text |-> "", index |-> 0, end |-> 0]
          ELSE LET i == CHOOSE i \in at : \A j \in at : i <= j
               IN [found |-> TRUE, text |-> text[i], index |-> i, end |-> i]

ExecTexts ==
  { <<>>, <<"word">>, <<"guaranteed">>, <<"word", "guaranteed", "word", "guaranteed">> }

\* the text and the rule findMatches is given
ExecInit ==
  /\ pIn \in [op : {"findMatchesLoop"}, text : ExecTexts,
               pattern : {"guaranteed", EmptyMatchPattern, Null}, flags : FlagValues]
  /\ pOut = [done |-> FALSE]

\* lines 426-432: the early return, or the regular expression is built
ExecBegin ==
  /\ pIn.op = "findMatchesLoop"
  /\ pOut = [done |-> FALSE]
  /\ pOut' = IF pIn.pattern = Null \/ pIn.text = <<>>
             THEN [done |-> TRUE, matches |-> <<>>, lastIndex |-> 0, more |-> FALSE]
             ELSE [done |-> FALSE, matches |-> <<>>, lastIndex |-> 0, more |-> FALSE]
  /\ UNCHANGED pIn

\* lines 434-440, 445: one regex.exec(text); a match is pushed and the loop goes
\* on, null ends the loop and findMatches returns
ExecStep ==
  /\ pIn.op = "findMatchesLoop"
  /\ ~pOut.done
  /\ "matches" \in DOMAIN pOut
  /\ LET flags == flagsOf(pIn)
         match == exec(pIn.text, pIn.pattern, IF global(flags) THEN pOut.lastIndex ELSE 0)
     IN pOut' =
          IF ~match.found
          THEN [pOut EXCEPT !.done = TRUE, !.lastIndex = 0]
          ELSE [pOut EXCEPT
                  !.lastIndex = IF global(flags) THEN match.end ELSE @,
                  !.matches = IF Len(@) < MaxMatches
                              THEN Append(@, [text |-> match.text, index |-> match.index,
                                              location |-> estimateLocation(pIn.text, match.index)])
                              ELSE @,
                  !.more = IF Len(pOut.matches) < MaxMatches THEN @ ELSE ~@]
  /\ UNCHANGED pIn

(***************************************************************************)
(* ModelRouter: constructor and resolveModelReferences                     *)
(***************************************************************************)
\* model_ref values "provider:ref" of a model entry, split at the colon; the
\* first: the entry has no model_ref
NoModelRef == [given |-> FALSE, provider |-> "", ref |-> ""]
ModelRefs ==
  { NoModelRef,
    [given |-> TRUE, provider |-> "anthropic", ref |-> "sonnet"],
    [given |-> TRUE, provider |-> "anthropic", ref |-> "retired"],
    [given |-> TRUE, provider |-> "mistral", ref |-> "large"] }

\* the concrete model id the registry holds for a reference
modelIdOf(modelRef) == "claude-3-5-sonnet-20241022"

\* fm.loadJSON('config/ai-models.json') || this.getDefaultConfig(): the file's
\* models table as the list of its entries, or the default, which has roles only
ConfigFiles ==
  { [file |-> "absent", hasModels |-> FALSE, models |-> <<>>] }
  \cup { [file |-> "present", hasModels |-> TRUE, models |-> m] :
           m \in SeqsUpTo(ModelRefs, MaxModels) }

\* fm.loadJSON('config/model-registry.json') || {}
RegistryFiles ==
  { [file |-> "absent", hasModels |-> FALSE, models |-> [p \in {} |-> {}]],
    [file |-> "present", hasModels |-> FALSE, models |-> [p \in {} |-> {}]],
    [file |-> "present", hasModels |-> TRUE, models |-> [p \in {} |-> {}]],
    [file |-> "present", hasModels |-> TRUE, models |-> [p \in {"anthropic"} |-> {}]],
    [file |-> "present", hasModels |-> TRUE, models |-> [p \in {"anthropic"} |-> {"sonnet"}]] }

\* the files new ModelRouter() finds
ConstructInit ==
  /\ pIn \in [op : {"constructor"}, config : ConfigFiles, registry : RegistryFiles]
  /\ pOut = [done |-> FALSE]

\* this.modelRegistry.models[provider] && this.modelRegistry.models[provider][ref]
resolvable(registry, modelRef) ==
  /\ modelRef.provider \in DOMAIN registry.models
  /\ modelRef.ref \in registry.models[modelRef.provider]

\* lines 38-51, 62-65: the constructor up to Object.entries(this.config.models)
ConstructBegin ==
  /\ pIn.op = "constructor"
  /\ pOut = [done |-> FALSE]
  /\ pOut' = IF pIn.config.hasModels
             THEN [done |-> FALSE, i |-> 0, model_id |-> <<>>, warned |-> <<>>]
             ELSE [done |-> TRUE, threw |-> TRUE, i |-> 0, model_id |-> <<>>, warned |-> <<>>]
  /\ UNCHANGED pIn

\* lines 65-77: one iteration of the loop of resolveModelReferences
ResolveStep ==
  /\ pIn.op = "constructor"
  /\ ~pOut.done
  /\ "i" \in DOMAIN pOut
  /\ pOut.i < Len(pIn.config.models)
  /\ LET modelRef == pIn.config.models[pOut.i + 1]
     IN pOut' =
          IF ~modelRef.given
          THEN [pOut EXCEPT !.i = @ + 1, !.model_id = Append(@, Null), !.warned = Append(@, FALSE)]
          ELSE IF ~pIn.registry.hasModels
          THEN [done |-> TRUE, threw |-> TRUE, i |-> pOut.i,
                model_id |-> pOut.model_id, warned |-> pOut.warned]
          ELSE IF resolvable(pIn.registry, modelRef)
          THEN [pOut EXCEPT !.i = @ + 1, !.model_id = Append(@, modelIdOf(modelRef)),
                            !.warned = Append(@, FALSE)]
          ELSE [pOut EXCEPT !.i = @ + 1, !.model_id = Append(@, Null), !.warned = Append(@, TRUE)]
  /\ UNCHANGED pIn

\* lines 79-83, 52-56: the loop is over and the constructor completes
ConstructEnd ==
  /\ pIn.op = "constructor"
  /\ ~pOut.done
  /\ "i" \in DOMAIN pOut
  /\ pOut.i = Len(pIn.config.models)
  /\ pOut' = [pOut EXCEPT !.done = TRUE] @@ [threw |-> FALSE]
  /\ UNCHANGED pIn

(***************************************************************************)
(* ComplianceChecker.checkMultiplePages                                    *)
(***************************************************************************)
\* what this.scraper makes of a URL: extractContent resolves with a content or
\* rejects, and detectPageType returns a page type or throws (a content
\* without title)
Pages ==
  [u \in {"https://rto.example/", "https://rto.example/courses",
          "https://rto.example/down", "https://rto.example/untitled"} |->
     CASE u = "https://rto.example/" ->
            [extracted |-> TRUE, typed |-> TRUE, pageType |-> "homepage",
             content |-> [text |-> <<"welcome", "rpl", "fee", "phone">>,
                          links |-> [defined |-> FALSE, items |-> <<>>]]]
       [] u = "https://rto.example/courses" ->
            [extracted |-> TRUE, typed |-> TRUE, pageType |-> "course",
             content |-> [text |-> <<"guaranteed", "course">>,
                          links |-> [defined |-> FALSE, items |-> <<>>]]]
       [] u = "https://rto.example/down" ->
            [extracted |-> FALSE, typed |-> FALSE, pageType |-> Null,
             content |-> [text |-> <<>>, links |-> [defined |-> FALSE, items |-> <<>>]]]
       [] OTHER ->
            [extracted |-> TRUE, typed |-> FALSE, pageType |-> Null,
             content |-> [text |-> <<"welcome">>,
                          links |-> [defined |-> FALSE, items |-> <<>>]]]]

Urls == DOMAIN Pages

\* the rules files of the engine that checks the pages
BatchRulesFiles ==
  { [kind |-> "unreadable"], [kind |-> "shapeless"],
    [kind |-> "valid", data |-> RuleSet(StandardWeights, SpreadThresholds)] }

\* checkCompliance(content, { ...options, url, pageType }) with useAI false: what
\* the await gives
checkCompliance(file, content, options) ==
  IF file.kind = "unreadable" THEN Thrown(RulesUnavailable)
  ELSE IF file.kind = "shapeless" THEN Thrown(ComplianceCheckFailed("TypeError"))
  ELSE finish(file.data, [content |-> content, options |-> options],
              performBasicChecks(content, file.data), NoAIResults)

\* mutant: the first page that fails ends the batch
pageFailedStops(out, url, error) ==
  [out EXCEPT !.done = TRUE,
              !.results = Append(@, [url |-> url, error |-> error,
                                     compliance_score |-> 0, status |-> "ERROR"])]

\* lines 492-499: the catch block of the loop body
pageFailed(out, url, error) ==
  [out EXCEPT !.i = @ + 1, !.phase = "extract",
              !.results = Append(@, [url |-> url, error |-> error,
                                     compliance_score |-> 0, status |-> "ERROR"])]

\* the URLs and options checkMultiplePages is given
BatchInit ==
  /\ pIn \in [op : {"checkMultiplePages"}, urls : SeqsUpTo(Urls, MaxUrls),
               rulesFile : BatchRulesFiles,
               options : [includeRecommendations : {TRUE}, useAI : {FALSE}]]
  /\ pOut = [done |-> FALSE]

\* line 474: const results = []
BatchBegin ==
  /\ pIn.op = "checkMultiplePages"
  /\ pOut = [done |-> FALSE]
  /\ pOut' = [done |-> FALSE, results |-> <<>>, i |-> 0, phase |-> "extract"]
  /\ UNCHANGED pIn

\* lines 476-482: the awaited extractContent(url) settles and the page type is detected
PageExtracted ==
  /\ pIn.op = "checkMultiplePages"
  /\ ~pOut.done
  /\ "results" \in DOMAIN pOut
  /\ pOut.phase = "extract"
  /\ pOut.i < Len(pIn.urls)
  /\ LET url == pIn.urls[pOut.i + 1]
         page == Pages[url]
     IN pOut' =
          IF ~page.extracted THEN pageFailed(pOut, url, "Content extraction failed")
          ELSE IF ~page.typed THEN pageFailed(pOut, url, "TypeError")
          ELSE [pOut EXCEPT !.phase = "check"]
  /\ UNCHANGED pIn

\* lines 484-491: the awaited checkCompliance settles
PageChecked ==
  /\ pIn.op = "checkMultiplePages"
  /\ ~pOut.done
  /\ "results" \in DOMAIN pOut
  /\ pOut.phase = "check"
  /\ LET url == pIn.urls[pOut.i + 1]
         page == Pages[url]
         settled == checkCompliance(pIn.rulesFile, page.content,
                                    [url |-> url, pageType |-> page.pageType,
                                     includeRecommendations |-> pIn.options.includeRecommendations,
                                     useAI |-> pIn.options.useAI])
     IN pOut' =
          IF settled.kind = "error" THEN pageFailed(pOut, url, settled.error.type)
          ELSE [pOut EXCEPT !.i = @ + 1, !.phase = "extract",
                            !.results = Append(@, settled.result)]
  /\ UNCHANGED pIn

\* line 502: return results
BatchEnd ==
  /\ pIn.op = "checkMultiplePages"
  /\ ~pOut.done
  /\ "results" \in DOMAIN pOut
  /\ pOut.phase = "extract"
  /\ pOut.i = Len(pIn.urls)
  /\ pOut' = [pOut EXCEPT !.done = TRUE]
  /\ UNCHANGED pIn

InitParts ==
  /\ RouterIdle
  /\ EngineIdle
  /\ ScoreIdle
  /\ StatsIdle
  /\ LimiterIdle
  /\ (CombineInit \/ MatchInit \/ BasicInit \/ RequiredInit \/ ConstructInit \/ ExecInit \/ BatchInit)

NextParts ==
  \/ CombineBegin /\ UNCHANGED <<routerVars, engineVars, scoreVars, statsVars, limiterVars>>
  \/ CombineStep /\ UNCHANGED <<routerVars, engineVars, scoreVars, statsVars, limiterVars>>
  \/ CombineEnd /\ UNCHANGED <<routerVars, engineVars, scoreVars, statsVars, limiterVars>>
  \/ MatchText /\ UNCHANGED <<routerVars, engineVars, scoreVars, statsVars, limiterVars>>
  \/ BasicChecks /\ UNCHANGED <<routerVars, engineVars, scoreVars, statsVars, limiterVars>>
  \/ RequiredChecks /\ UNCHANGED <<routerVars, engineVars, scoreVars, statsVars, limiterVars>>
  \/ ConstructBegin /\ UNCHANGED <<routerVars, engineVars, scoreVars, statsVars, limiterVars>>
  \/ ResolveStep /\ UNCHANGED <<routerVars, engineVars, scoreVars, statsVars, limiterVars>>
  \/ ConstructEnd /\ UNCHANGED <<routerVars, engineVars, scoreVars, statsVars, limiterVars>>
  \/ ExecBegin /\ UNCHANGED <<routerVars, engineVars, scoreVars, statsVars, limiterVars>>
  \/ ExecStep /\ UNCHANGED <<routerVars, engineVars, scoreVars, statsVars, limiterVars>>
  \/ BatchBegin /\ UNCHANGED <<routerVars, engineVars, scoreVars, statsVars, limiterVars>>
  \/ PageExtracted /\ UNCHANGED <<routerVars, engineVars, scoreVars, statsVars, limiterVars>>
  \/ PageChecked /\ UNCHANGED <<routerVars, engineVars, scoreVars, statsVars, limiterVars>>
  \/ BatchEnd /\ UNCHANGED <<routerVars, engineVars, scoreVars, statsVars, limiterVars>>

SpecParts == InitParts /\ [][NextParts]_vars

\* findMatches alone, run to its end
InitLoop ==
  /\ RouterIdle
  /\ EngineIdle
  /\ ScoreIdle
  /\ StatsIdle
  /\ LimiterIdle
  /\ ExecInit

NextLoop ==
  \/ ExecBegin /\ UNCHANGED <<routerVars, engineVars, scoreVars, statsVars, limiterVars>>
  \/ ExecStep /\ UNCHANGED <<routerVars, engineVars, scoreVars, statsVars, limiterVars>>

\* a call of findMatches that is running goes on running: the JavaScript loop
\* takes its next step as long as it has one
SpecLoop == InitLoop /\ [][NextLoop]_vars /\ WF_vars(NextLoop)

(***************************************************************************)
(* Properties of callWithFailover                                          *)
(***************************************************************************)
\* isConfigured() of the client a name stands for (no client: not configured)
IsConfigured(name) == name \in Clients /\ configured[name]

\* call c has ended, and its role is one the configuration defines
Finished(c) == rpc[c] = "done" /\ rrole[c] \in DOMAIN roles

InvokedTiers(c) == {invoked[c][i].tier : i \in 1..Len(invoked[c])}

\* C1: with the primary not configured and the fallback configured, the primary's
\* generateText is never invoked, the fallback's is, and when it succeeds its
\* (normalized) result is what the caller receives; with neither configured the
\* call fails with NoProviderAvailable and no generateText is invoked at all.
C1_FailoverToFallback ==
  \A c \in CallIds :
    rrole[c] \in DOMAIN roles =>
      LET P == primaryClientName(rrole[c])
          F == fallbackClientName(rrole[c])
      IN /\ ~IsConfigured(P) => "primary" \notin InvokedTiers(c)
         /\ (Finished(c) /\ ~IsConfigured(P) /\ IsConfigured(F)) =>
               /\ invoked[c] = <<[client |-> F, tier |-> "fallback"]>>
               /\ resolved[c] # <<>> =>
                    outcome[c] = Returned(normalizedResult(resolved[c][1]))
         /\ (Finished(c) /\ ~IsConfigured(P) /\ ~IsConfigured(F)) =>
               /\ outcome[c] = Thrown(NoProviderAvailable(rrole[c]))
               /\ invoked[c] = <<>>

\* C1 witness: a call ended with the fallback's result, its primary unconfigured
C1_Witness ==
  \E c \in DirectCalls :
    /\ Finished(c)
    /\ ~IsConfigured(primaryClientName(rrole[c]))
    /\ IsConfigured(fallbackClientName(rrole[c]))
    /\ outcome[c].kind = "result"
    /\ outcome[c].result.model = ModelOf(fallbackClientName(rrole[c]))

\* C2: an error thrown by the primary's generateText is never what the caller
\* receives; the fallback, when configured, is invoked next, and when it succeeds
\* the caller receives its result.
C2_PrimaryErrorAbsorbed ==
  \A c \in CallIds :
    (Finished(c) /\ threw[c] # <<>> /\ invoked[c][1].tier = "primary") =>
      LET F == fallbackClientName(rrole[c])
      IN /\ outcome[c] # Thrown(threw[c][1])
         /\ IsConfigured(F) =>
              /\ invoked[c] = <<[client |-> primaryClientName(rrole[c]), tier |-> "primary"],
                               [client |-> F, tier |-> "fallback"]>>
              /\ resolved[c] # <<>> =>
                   outcome[c] = Returned(normalizedResult(resolved[c][1]))

\* C2 witness: the primary threw, the fallback answered, the caller has the answer
C2_Witness ==
  \E c \in DirectCalls :
    /\ Finished(c)
    /\ Len(threw[c]) = 1
    /\ Len(invoked[c]) = 2
    /\ outcome[c].kind = "result"

\* the error the fallback's generateText threw in call c, if it did
FallbackThrew(c) ==
  /\ invoked[c] # <<>>
  /\ invoked[c][Len(invoked[c])].tier = "fallback"
  /\ threw[c] # <<>>
  /\ threw[c][Len(threw[c])].n = Len(invoked[c])

\* C3: when the fallback's generateText throws, the caller receives exactly that
\* error object, whether or not the primary was attempted before.
C3_FallbackErrorPropagates ==
  \A c \in CallIds :
    (Finished(c) /\ FallbackThrew(c)) =>
      outcome[c] = Thrown(threw[c][Len(threw[c])])

\* C3 witness: a fallback error reached the caller in a call that never tried the
\* primary, and in another that tried it first
C3_Witness ==
  /\ \E c \in DirectCalls :
       Finished(c) /\ FallbackThrew(c) /\ Len(invoked[c]) = 1
         /\ outcome[c].kind = "error"
  /\ \E c \in DirectCalls :
       Finished(c) /\ FallbackThrew(c) /\ Len(invoked[c]) = 2
         /\ outcome[c].kind = "error"

\* both tiers were configured and both generateText calls threw
BothFailed(c) ==
  /\ Finished(c)
  /\ IsConfigured(primaryClientName(rrole[c]))
  /\ IsConfigured(fallbackClientName(rrole[c]))
  /\ Len(threw[c]) = 2

\* C4 as stated: both configured and both failing ends in NoProviderAvailable.
C4_Original ==
  \A c \in CallIds :
    BothFailed(c) => outcome[c] = Thrown(NoProviderAvailable(rrole[c]))

\* C4 amended: when both tiers are configured and both generateText calls fail,
\* the call fails with the error the fallback threw, which is not
\* NoProviderAvailable.
C4_BothFailGivesFallbackError ==
  \A c \in CallIds :
    BothFailed(c) =>
      /\ outcome[c] = Thrown(threw[c][2])
      /\ outcome[c].error.type = "ProviderError"
      /\ outcome[c].error.from = fallbackClientName(rrole[c])

\* C4 witness: a call in which both tiers threw
C4_Witness == \E c \in DirectCalls : BothFailed(c) /\ outcome[c].kind = "error"

EndedNoProvider(c) ==
  Finished(c) /\ outcome[c] = Thrown(NoProviderAvailable(rrole[c]))

\* C5 as stated: NoProviderAvailable means no provider was attempted at all.
C5_Original ==
  \A c \in CallIds :
    EndedNoProvider(c) =>
      /\ invoked[c] = <<>>
      /\ ~IsConfigured(primaryClientName(rrole[c]))
      /\ ~IsConfigured(fallbackClientName(rrole[c]))

\* C5 amended: NoProviderAvailable means the fallback is absent or unconfigured
\* and was not attempted, no generateText succeeded, and the primary was either
\* unconfigured and not attempted or attempted exactly once and threw.
C5_NoProviderMeansNoFallback ==
  \A c \in CallIds :
    EndedNoProvider(c) =>
      LET P == primaryClientName(rrole[c])
      IN /\ ~IsConfigured(fallbackClientName(rrole[c]))
         /\ "fallback" \notin InvokedTiers(c)
         /\ resolved[c] = <<>>
         /\ \/ ~IsConfigured(P) /\ invoked[c] = <<>> /\ threw[c] = <<>>
            \/ /\ IsConfigured(P)
               /\ invoked[c] = <<[client |-> P, tier |-> "primary"]>>
               /\ Len(threw[c]) = 1

\* C5 witness: NoProviderAvailable after the primary was attempted and threw
C5_Witness ==
  \E c \in DirectCalls : EndedNoProvider(c) /\ Len(threw[c]) = 1

(***************************************************************************)
(* Properties of calculateComplianceScore and determineStatus              *)
(***************************************************************************)
Scored == sIn.op = "score" /\ sOut.done

\* C8: whatever the violations (any severities, recognized or not), the required
\* elements and the weight table, calculateComplianceScore returns an integer
\* between 0 and 100.
C8_ScoreInRange == Scored => sOut.score \in 0..MaxScore

\* C8 witness: the deductions went below zero and the score returned is 0
C8_Witness ==
  /\ Scored
  /\ deduct(sIn.weights, sIn.violations, Len(sIn.violations)) < 0
  /\ sOut.score = 0

\* every violation of the input is critical, and there is at least one
OnlyCritical ==
  /\ Scored
  /\ sIn.violations # <<>>
  /\ \A i \in 1..Len(sIn.violations) : sIn.violations[i].severity = "critical"

\* the +5 bonus applies: some required element, and all of them found
BonusApplies ==
  /\ sIn.required_elements # <<>>
  /\ \A i \in 1..Len(sIn.required_elements) : sIn.required_elements[i].found

C10_StatusByThresholds ==
  sOut.done =>
    LET t == sIn.thresholds
        x == sOut.score
        st == sOut.status
    IN /\ st = "PASS" <=> x >= t.excellent
       /\ st = "PASS_WITH_NOTES" <=> (x >= t.good /\ x < t.excellent)
       /\ st = "NEEDS_REVIEW" <=> (x >= t.acceptable /\ x < t.good)
       /\ st = "ACTION_REQUIRED" <=> (x >= t.needs_improvement /\ x < t.acceptable)
       /\ st = "FAIL" <=> x < t.needs_improvement
       /\ x = t.excellent - 1 => st = "PASS_WITH_NOTES"
       /\ x = t.good - 1 => st = "NEEDS_REVIEW"
       /\ x = t.acceptable - 1 => st = "ACTION_REQUIRED"
       /\ x = t.needs_improvement - 1 => st = "FAIL"

\* C10 witness: a computed score exactly on the good cut point, classified
\* PASS_WITH_NOTES
C10_Witness ==
  /\ Scored
  /\ sOut.score = sIn.thresholds.good
  /\ sOut.status = "PASS_WITH_NOTES"

(***************************************************************************)
(* Properties of checkCompliance                                           *)
(***************************************************************************)
\* checkCompliance has ended
Checked == cpc = "done"

\* s is a prefix of t
IsPrefix(s, t) == Len(s) <= Len(t) /\ \A i \in 1..Len(s) : s[i] = t[i]

\* the result carries every member of a ComplianceResult
FullyPopulated(result) ==
  {"compliance_score", "status", "violations", "passed_rules", "required_elements",
   "recommendations"} \subseteq DOMAIN result

\* the engine's router call was made and ended in an error
AIAnalysisThrew == rpc[EngineCall] = "done" /\ outcome[EngineCall].kind = "error"

\* C6: with useAI requested and the rules loaded, checkCompliance returns a result
\* whatever the AI path did: the rule findings are in it unchanged, and when the
\* AI analysis failed (the router call threw) ai_analysis is null and the
\* violations are the rule violations.
C6_AIFailureNeverThrows ==
  (Checked /\ cIn.options.useAI /\ rules.loaded /\ rules.wellFormed) =>
    /\ cOut.kind = "result"
    /\ IsPrefix(basic.violations, cOut.result.violations)
    /\ cOut.result.passed_rules = basic.passed_rules
    /\ cOut.result.required_elements = basic.required_elements
    /\ AIAnalysisThrew =>
         /\ ~cOut.result.ai_analysis.present
         /\ cOut.result.violations = basic.violations

\* C7: checkCompliance ends with a fully populated result or with the rules
\* unavailable error; it throws only when the rule definitions could not be loaded,
\* and an unreadable rules file always ends it with that error.
C7_ResultOrRulesUnavailable ==
  Checked =>
    /\ \/ cOut.kind = "result" /\ FullyPopulated(cOut.result)
       \/ cOut = Thrown(RulesUnavailable)
    /\ cOut.kind = "error" => rulesFile.kind # "valid"
    /\ rulesFile.kind = "unreadable" => cOut = Thrown(RulesUnavailable)

\* the part of C7 the code keeps: an unreadable rules file always ends
\* checkCompliance with the rules unavailable error (not a claim's formula)
RulesFailureSurfaces ==
  (Checked /\ rulesFile.kind = "unreadable") => cOut = Thrown(RulesUnavailable)

(***************************************************************************)
(* Properties of combineResults                                            *)
(***************************************************************************)
\* the (text_found, category) pair of violation v equals that of fields
SamePair(v, fields) == v.text_found = fields.text_found /\ v.category = fields.category

\* a step of the merge loop: the AI violation at pos + 1 has been dealt with
LoopStep ==
  /\ pIn.op = "combine"
  /\ "pos" \in DOMAIN pOut
  /\ "pos" \in DOMAIN pOut'
  /\ pOut'.pos = pOut.pos + 1

\* C11: an AI violation whose (text_found, category) pair equals, by exact
\* comparison, that of a violation already in the merged list is not added (the
\* count is unchanged); one that differs from every violation in the list in
\* text_found or in category is added (the count grows by one).
C11_DedupByTextAndCategory ==
  [][LoopStep =>
       LET aiViolation == pIn.aiResults.violations.items[pOut.pos + 1].v
           before == pOut.combined.violations.items
           after == pOut'.combined.violations.items
       IN /\ (\E i \in 1..Len(before) : SamePair(before[i], aiViolation))
               => Len(after) = Len(before)
          /\ (\A i \in 1..Len(before) : ~SamePair(before[i], aiViolation))
               => Len(after) = Len(before) + 1]_vars

\* C11 witness: the rules found "guaranteed"; the AI repeated that violation, and
\* also reported it with another case and under another category: two were added
C11_Witness ==
  /\ pIn.op = "combine"
  /\ pOut.done
  /\ pIn.given # <<>>
  /\ \E i \in 1..Len(pIn.given) : pIn.given[i].text_found = "guaranteed"
  /\ Len(pIn.aiResults.violations.items) = 3
  /\ \A i \in 1..3 :
       pIn.aiResults.violations.items[i].v.id = <<"cv_001", "ai_001", "ai_002">>[i]
  /\ Len(pOut.result.violations) = Len(pIn.given) + 2

\* the AI violations of the input whose (text_found, category) pair occurs neither
\* among the rule violations nor earlier in the AI list, in AI-response order
NovelAIViolations ==
  LET items == pIn.aiResults.violations.items
      novel(j) ==
        /\ \A i \in 1..Len(pIn.given) : ~SamePair(pIn.given[i], items[j].v)
        /\ \A i \in 1..(j - 1) : ~SamePair(items[i].v, items[j].v)
      at == SelectSeq([j \in 1..Len(items) |-> j], novel)
  IN [n \in 1..Len(at) |-> items[at[n]].v]

\* v with the member source set to 'ai_analysis'
AISourced(v) ==
  [f \in DOMAIN v \cup {"source"} |-> IF f = "source" THEN "ai_analysis" ELSE v[f]]

\* C20: the list combineResults returns is the rule violations, unchanged and none
\* of them tagged, followed by the novel AI violations in AI-response order, each
\* tagged as AI-sourced; of two AI violations with the same (text_found, category)
\* only the first is appended; the caller's rule-violation list is not mutated.
C20_RulePrefixThenNovelAI ==
  (pIn.op = "combine" /\ pOut.done) =>
    LET merged == pOut.result.violations
        novel == NovelAIViolations
    IN /\ IsPrefix(pIn.given, merged)
       /\ \A i \in 1..Len(pIn.given) : "source" \notin DOMAIN merged[i]
       /\ Len(merged) = Len(pIn.given) + Len(novel)
       /\ \A n \in 1..Len(novel) : merged[Len(pIn.given) + n] = AISourced(novel[n])
       /\ pIn.basicResults.violations = pIn.given

\* C20 witness: rule violations were found, and the AI reported the same new
\* violation twice after another new one: two were appended, in that order
C20_Witness ==
  /\ pIn.op = "combine"
  /\ pOut.done
  /\ pIn.given # <<>>
  /\ Len(pIn.aiResults.violations.items) = 3
  /\ \A i \in 1..3 :
       pIn.aiResults.violations.items[i].v.id = <<"ai_003", "ai_002", "ai_002">>[i]
  /\ Len(pOut.result.violations) = Len(pIn.given) + 2
  /\ pOut.result.violations[Len(pIn.given) + 1].id = "ai_003"
  /\ pOut.result.violations[Len(pIn.given) + 2].id = "ai_002"

\* the stepwise loop and combineResults as checkCompliance calls it agree
CombineAgrees ==
  (pIn.op = "combine" /\ pOut.done) =>
    LET whole == combineResults([pIn.basicResults EXCEPT !.violations = pIn.given],
                                pIn.aiResults)
    IN ~whole.threw /\ whole.value = pOut.result

(***************************************************************************)
(* Properties of findMatches, estimateLocation and performBasicChecks       *)
(***************************************************************************)
\* C12: the location of a match is decided by the number k of whitespace-delimited
\* tokens that precede it: 'beginning' for k < 50, 'middle' for 50 <= k < 200,
\* 'end' for k >= 200.
C12_LocationByTokensBefore ==
  (pIn.op = "findMatches" /\ pOut.done) =>
    /\ Len(pOut.matches) = 1
    /\ LET k == pIn.before
       IN pOut.matches[1].location =
            IF k < 50 THEN "beginning" ELSE IF k < 200 THEN "middle" ELSE "end"

\* what the code does instead: the boundaries lie at k = 49 and k = 199 (not a
\* claim's formula)
LocationByTokensBeforePlusOne ==
  (pIn.op = "findMatches" /\ pOut.done) =>
    /\ Len(pOut.matches) = 1
    /\ LET k == pIn.before
       IN pOut.matches[1].location =
            IF k + 1 < 50 THEN "beginning" ELSE IF k + 1 < 200 THEN "middle" ELSE "end"

\* the rule list without the rule id
withoutRule(list, id) == SelectSeq(list, LAMBDA r : r.id # id)

\* the rule set without the rule id
RuleSetWithout(id) ==
  LET ruleset == RuleSet(StandardWeights, SpreadThresholds)
  IN [ruleset EXCEPT
        !.rules.critical_violations = withoutRule(@, id),
        !.rules.required_terminology = withoutRule(@, id),
        !.rules.required_disclaimers = withoutRule(@, id)]

\* some element of the list carries the id
Mentions(list, id) == \E i \in 1..Len(list) : list[i].id = id

\* C13: a rule whose pattern is malformed is skipped: it contributes no violation,
\* no passed rule and no required element, and the result is the one the rule set
\* without that rule gives (taken for a non-empty text, the one case in which the
\* pattern is compiled).
C13_MalformedRuleSkipped ==
  (pIn.op = "performBasicChecks" /\ pOut.done /\ pIn.content.text # <<>>) =>
    /\ ~Mentions(pOut.result.violations, pIn.malformed)
    /\ ~Mentions(pOut.result.passed_rules, pIn.malformed)
    /\ ~Mentions(pOut.result.required_elements, pIn.malformed)
    /\ pOut.result = performBasicChecks(pIn.content, RuleSetWithout(pIn.malformed))

\* what the code keeps of C13: the other rules are evaluated as without the
\* malformed rule, which is recorded as having no match (not a claim's formula)
MalformedRuleCountsAsNoMatch ==
  (pIn.op = "performBasicChecks" /\ pOut.done) =>
    LET without == performBasicChecks(pIn.content, RuleSetWithout(pIn.malformed))
        others(list) == SelectSeq(list, LAMBDA e : e.id # pIn.malformed)
    IN /\ others(pOut.result.violations) = without.violations
       /\ others(pOut.result.passed_rules) = without.passed_rules
       /\ others(pOut.result.required_elements) = without.required_elements
       /\ ~Mentions(pOut.result.required_elements, pIn.malformed)
       /\ pIn.malformed \in {"cv_001", "cv_002", "rt_001"}
            => Mentions(pOut.result.passed_rules, pIn.malformed)
       /\ pIn.malformed = "rd_001" => Mentions(pOut.result.violations, pIn.malformed)

(***************************************************************************)
(* The score as a formula                                                  *)
(***************************************************************************)
\* the configured weight of the severity of v, whatever its value, and the default
\* only for a severity that is not a key of the table
ConfiguredWeight(weights, v) ==
  IF v.severity \in DOMAIN weights THEN weights[v.severity] ELSE DefaultWeight * Scale

RECURSIVE SumOfWeights(_, _, _)
SumOfWeights(weights, violations, n) ==
  IF n = 0 THEN 0
  ELSE SumOfWeights(weights, violations, n - 1) + ConfiguredWeight(weights, violations[n])

\* C19: the score is round(min(100, max(0, 100 - sum of w(v)) + b)), with w(v) the
\* configured weight of v.severity (a configured 0 included), 10 only for a
\* severity missing from the table, and b = 5 when required_elements is non-empty
\* and all found, else 0.
C19_ScoreFormula ==
  Scored =>
    LET sum == SumOfWeights(sIn.weights, sIn.violations, Len(sIn.violations))
        b == IF BonusApplies THEN Bonus * Scale ELSE 0
    IN sOut.score = MathRound(Min(MaxScore * Scale, Max(0, MaxScore * Scale - sum) + b))

\* what the code keeps of C19: the same formula when no violation has a severity
\* configured with the weight 0 (not a claim's formula)
ScoreFormulaWithoutZeroWeights ==
  (Scored /\ \A i \in 1..Len(sIn.violations) :
               sIn.violations[i].severity \in DOMAIN sIn.weights
                 => sIn.weights[sIn.violations[i].severity] # 0) =>
    LET sum == SumOfWeights(sIn.weights, sIn.violations, Len(sIn.violations))
        b == IF BonusApplies THEN Bonus * Scale ELSE 0
    IN sOut.score = MathRound(Min(MaxScore * Scale, Max(0, MaxScore * Scale - sum) + b))

(***************************************************************************)
(* Properties of the usage accounting and of the attempt policy            *)
(***************************************************************************)
\* the one token total of a usage object, whichever members the provider reported
TokenTotal(usage) ==
  IF ~usage.defined THEN 0
  ELSE IF usage.total_tokens # Undef THEN usage.total_tokens
  ELSE IF usage.prompt_tokens # Undef /\ usage.completion_tokens # Undef
  THEN usage.prompt_tokens + usage.completion_tokens
  ELSE IF usage.input_tokens # Undef /\ usage.output_tokens # Undef
  THEN usage.input_tokens + usage.output_tokens
  ELSE 0

\* C14: a call that returns through provider p adds exactly 1 to p's calls and the
\* normalized token total of its usage to p's tokens, and leaves every other
\* provider's stats alone; a generateText call that throws changes no provider's
\* calls, tokens or cost.
C14_UsageAccounting ==
  [][/\ \A c \in CallIds :
          Len(resolved'[c]) = Len(resolved[c]) + 1 =>
            LET p == invoked[c][Len(invoked[c])].client
                usage == resolved'[c][Len(resolved'[c])].usage
            IN /\ statsOf(usageStats', p).calls = statsOf(usageStats, p).calls + 1
               /\ statsOf(usageStats', p).tokens =
                    statsOf(usageStats, p).tokens + TokenTotal(usage)
               /\ \A q \in Clients \ {p} :
                    statsOf(usageStats', q) = statsOf(usageStats, q)
     /\ (\E c \in CallIds : Len(threw'[c]) = Len(threw[c]) + 1) =>
          /\ \A q \in Clients : statsOf(usageStats', q) = statsOf(usageStats, q)
          /\ totalCost' = totalCost]_vars

\* C14 witness: a call whose primary threw returned through its fallback, which
\* reported prompt and completion tokens without a total: one call, 3000 tokens
C14_Witness ==
  \E c \in DirectCalls :
    /\ rpc[c] = "done"
    /\ Len(threw[c]) = 1
    /\ Len(resolved[c]) = 1
    /\ resolved[c][1].usage = UsageNoTotal
    /\ DOMAIN usageStats = {invoked[c][2].client}
    /\ usageStats[invoked[c][2].client].calls = 1
    /\ usageStats[invoked[c][2].client].tokens = 3000

\* call c returned through provider p
SucceededThrough(c, p) ==
  /\ rpc[c] = "done"
  /\ Len(resolved[c]) = 1
  /\ invoked[c][Len(invoked[c])].client = p

\* the sum of f over the calls 1..n that returned through p
RECURSIVE SumThrough(_, _, _)
SumThrough(f(_), p, n) ==
  IF n = 0 THEN 0
  ELSE SumThrough(f, p, n - 1) + (IF SucceededThrough(n, p) THEN f(n) ELSE 0)

\* C16: with several calls in flight together, interleaved at every await, no
\* update is lost: once all have completed, each provider's calls is the number of
\* invocations that returned through it, and its tokens and cost are the sums over
\* those invocations.
C16_NoLostUpdate ==
  (\A c \in DirectCalls : rpc[c] = "done") =>
    \A p \in Clients :
      LET one(c) == 1
          tokens(c) == TokenTotal(resolved[c][1].usage)
          cost(c) == calculateCost(p, resolved[c][1].usage)
      IN /\ statsOf(usageStats, p).calls = SumThrough(one, p, MaxCalls)
         /\ statsOf(usageStats, p).tokens = SumThrough(tokens, p, MaxCalls)
         /\ statsOf(usageStats, p).cost = SumThrough(cost, p, MaxCalls)

\* C16 witness: two calls have returned through the same provider, which has two
\* calls and both token totals on its account
C16_Witness ==
  /\ \A c \in DirectCalls : rpc[c] = "done"
  /\ \E p \in Clients :
       /\ SucceededThrough(1, p)
       /\ SucceededThrough(2, p)
       /\ usageStats[p].calls >= 2
       /\ usageStats[p].tokens >= 6000

\* the positions of the invocations of a tier in call c
TierAt(c, tier) == {i \in 1..Len(invoked[c]) : invoked[c][i].tier = tier}

\* C17: in one call generateText is invoked at most once for the primary and at
\* most once for the fallback, never with two requests outstanding; the fallback is
\* invoked only when the primary was found unconfigured or once its attempt has
\* ended in an error, and nothing is invoked after a success.
C17_OneAttemptPerTier ==
  \A c \in CallIds :
    /\ Cardinality(TierAt(c, "primary")) <= 1
    /\ Cardinality(TierAt(c, "fallback")) <= 1
    /\ Len(invoked[c]) <= 2
    /\ Len(invoked[c]) - Len(threw[c]) - Len(resolved[c]) \in {0, 1}
    /\ Len(resolved[c]) <= 1
    /\ Len(resolved[c]) = 1 => Len(invoked[c]) = Len(threw[c]) + 1
    /\ \A i \in TierAt(c, "fallback") :
         \/ i = 1 /\ ~IsConfigured(primaryClientName(rrole[c]))
         \/ /\ i = 2
            /\ invoked[c][1].tier = "primary"
            /\ Len(threw[c]) >= 1
            /\ threw[c][1].from = invoked[c][1].client
            /\ threw[c][1].n = 1

\* C17 witness: the primary was attempted and threw, then the fallback was
\* attempted and returned
C17_Witness ==
  \E c \in DirectCalls :
    /\ rpc[c] = "done"
    /\ Len(invoked[c]) = 2
    /\ invoked[c][1].tier = "primary"
    /\ invoked[c][2].tier = "fallback"
    /\ Len(threw[c]) = 1
    /\ Len(resolved[c]) = 1

(***************************************************************************)
(* Properties of the router's cost totals                                  *)
(***************************************************************************)
\* the sum of usageStats[p].cost over the providers in S
RECURSIVE SumOfCosts(_)
SumOfCosts(S) ==
  IF S = {} THEN 0
  ELSE LET p == CHOOSE q \in S : TRUE
       IN usageStats[p].cost + SumOfCosts(S \ {p})

\* from this state to the next no total and no provider's count has decreased
NothingDecreases ==
  /\ totalCost' >= totalCost
  /\ \A p \in Clients :
       /\ statsOf(usageStats', p).calls >= statsOf(usageStats, p).calls
       /\ statsOf(usageStats', p).tokens >= statsOf(usageStats, p).tokens
       /\ statsOf(usageStats', p).cost >= statsOf(usageStats, p).cost

\* C15: after any sequence of callWithFailover, generateImage/trackCost and
\* resetStats, totalCost is the sum of the providers' costs; right after resetStats
\* the total is 0 and there are no stats; any step that is not a resetStats
\* decreases neither the total nor any provider's calls, tokens or cost.
C15_TotalIsSumOfCosts ==
  /\ [](totalCost = SumOfCosts(DOMAIN usageStats))
  /\ [](lastOp = "resetStats" => totalCost = 0 /\ DOMAIN usageStats = {})
  /\ [][lastOp' # "resetStats" => NothingDecreases]_vars

\* C15 witness: after a reset, an image and a text call through another provider
\* have been paid for again
C15_Witness ==
  /\ resets >= 1
  /\ lastOp \in {"trackCost", "trackUsage"}
  /\ "openai" \in DOMAIN usageStats
  /\ usageStats["openai"].cost > 0
  /\ \E p \in DOMAIN usageStats \ {"openai"} : usageStats[p].cost > 0
  /\ totalCost > usageStats["openai"].cost

(***************************************************************************)
(* Properties of rateLimit                                                 *)
(***************************************************************************)
\* the requests of client key admitted in the 60 seconds that end at time t
AdmittedWithin(key, t) ==
  IF key \in DOMAIN admitted
  THEN SelectSeq(admitted[key], LAMBDA s : s > t - RATE_LIMIT_WINDOW /\ s <= t)
  ELSE <<>>

Occurrences(text, rule) ==
  IF rule.pattern = InvalidPattern THEN 0
  ELSE Cardinality({i \in 1..Len(text) : text[i] = rule.pattern})

\* the entries of a list that carry the id of the rule
EntriesOf(list, rule) == SelectSeq(list, LAMBDA e : e.id = rule.id)

\* the rules of a list, as a set
RulesIn(list) == {list[i] : i \in 1..Len(list)}

\* C21: for every critical_violations and required_terminology rule,
\* performBasicChecks returns either one violation per match (with the rule's
\* id, severity and asqa_reference) and no passed rule, or, without a match,
\* exactly one passed rule (with the rule's id and asqa_reference) and no
\* violation.
C21_ViolationPerMatchOrPassedRule ==
  (pIn.op = "performBasicChecks" /\ pOut.done) =>
    LET given == RuleSetWithMalformed(pIn.malformed).rules
    IN \A rule \in RulesIn(given.critical_violations) \cup RulesIn(given.required_terminology) :
         LET k == Occurrences(pIn.content.text, rule)
             vs == EntriesOf(pOut.result.violations, rule)
             ps == EntriesOf(pOut.result.passed_rules, rule)
         IN /\ Len(vs) = k
            /\ \A i \in 1..Len(vs) :
                 /\ vs[i].severity = rule.severity
                 /\ vs[i].asqa_reference = rule.asqa_reference
                 /\ vs[i].text_found = rule.pattern
            /\ Len(ps) = (IF k = 0 THEN 1 ELSE 0)
            /\ \A i \in 1..Len(ps) : ps[i].asqa_reference = rule.asqa_reference

\* C21 witness: a text that cv_001 matches twice and rt_001 not at all
C21_Witness ==
  /\ pIn.op = "performBasicChecks"
  /\ pOut.done
  /\ pIn.malformed = "rd_002"
  /\ Len(SelectSeq(pOut.result.violations, LAMBDA v : v.id = "cv_001")) = 2
  /\ Len(SelectSeq(pOut.result.passed_rules, LAMBDA r : r.id = "rt_001")) = 1

\* a call of performBasicChecks has returned
BasicDone == pIn.op \in {"performBasicChecks", "requiredChecks"} /\ pOut.done

\* the rule set of the call
GivenRuleSet ==
  IF pIn.op = "performBasicChecks" THEN RuleSetWithMalformed(pIn.malformed)
  ELSE RuleSetWithRequired

\* C22: for every required_disclaimers rule: without a match and with required =
\* true exactly one violation (text_found empty, location entire_page) and no
\* required element; with one or more matches exactly one required element and
\* no violation; without a match and with required = false neither.
C22_DisclaimerInverts ==
  BasicDone =>
    \A rule \in RulesIn(GivenRuleSet.rules.required_disclaimers) :
      LET k == Occurrences(pIn.content.text, rule)
          vs == EntriesOf(pOut.result.violations, rule)
          es == EntriesOf(pOut.result.required_elements, rule)
      IN /\ Len(vs) = (IF k = 0 /\ rule.required THEN 1 ELSE 0)
         /\ Len(es) = (IF k >= 1 THEN 1 ELSE 0)
         /\ \A i \in 1..Len(vs) : vs[i].text_found = "" /\ vs[i].location = "entire_page"
         /\ EntriesOf(pOut.result.passed_rules, rule) = <<>>

\* C22 witness: rd_001 matches twice and rd_002 once; and a page on which neither
\* matches, so that only the required one is reported missing
C22_Witness ==
  /\ pIn.op = "requiredChecks"
  /\ pOut.done
  /\ pIn.content.text = <<"rpl", "nationally", "rpl">>
  /\ Len(SelectSeq(pOut.result.required_elements, LAMBDA e : e.type = "disclaimer")) = 2

C22_WitnessMissing ==
  /\ pIn.op = "requiredChecks"
  /\ pOut.done
  /\ pIn.content.text = <<"course", "email">>
  /\ \E i \in 1..Len(pOut.result.violations) : pOut.result.violations[i].id = "rd_001"
  /\ \A i \in 1..Len(pOut.result.violations) : pOut.result.violations[i].id # "rd_002"

\* the structural predicates, by rule id
RegisteredPredicates == {"ws_001", "ws_002", "ws_003", "ws_004"}

LinkWith(content, words) ==
  /\ content.links.defined
  /\ \E i \in DOMAIN content.links.items : words \subseteq content.links.items[i].text

HrefWith(content, words) ==
  /\ content.links.defined
  /\ \E i \in DOMAIN content.links.items : words \subseteq content.links.items[i].href

Mentioned(content, tokens) == \E i \in DOMAIN content.text : content.text[i] \in tokens

Reports(content, id) ==
  \/ id = "ws_001" /\ (\/ LinkWith(content, {"contact"})
                       \/ HrefWith(content, {"contact"})
                       \/ Mentioned(content, {"phone", "email"}))
  \/ id = "ws_002" /\ LinkWith(content, {"privacy", "policy"})
  \/ id = "ws_003" /\ Mentioned(content, {"fee", "cost", "price", "tuition"})
  \/ id = "ws_004" /\ LinkWith(content, {"refund", "policy"})

\* C23: for every web_specific_requirements rule the predicate registered for
\* its id decides: found gives exactly one required element and one passed rule
\* and no violation; not found and required gives exactly one violation (missing
\* required web element, location entire_page) and nothing else; not found and
\* not required gives nothing; an id without a predicate counts as not found.
C23_WebRuleByPredicate ==
  BasicDone =>
    \A rule \in RulesIn(GivenRuleSet.rules.web_specific_requirements) :
      LET found == rule.id \in RegisteredPredicates /\ Reports(pIn.content, rule.id)
          vs == EntriesOf(pOut.result.violations, rule)
          es == EntriesOf(pOut.result.required_elements, rule)
          ps == EntriesOf(pOut.result.passed_rules, rule)
      IN /\ Len(es) = (IF found THEN 1 ELSE 0)
         /\ Len(ps) = (IF found THEN 1 ELSE 0)
         /\ Len(vs) = (IF ~found /\ rule.required THEN 1 ELSE 0)
         /\ \A i \in 1..Len(vs) :
              /\ vs[i].location = "entire_page"
              /\ vs[i].description = <<"Missing required web element: ">> \o rule.description

\* C23 witness: ws_004 found through a refund-policy link, ws_002 required and not
\* found, and the required ws_005, which has no predicate, reported missing
C23_Witness ==
  /\ pIn.op = "requiredChecks"
  /\ pOut.done
  /\ \E i \in 1..Len(pOut.result.required_elements) : pOut.result.required_elements[i].id = "ws_004"
  /\ \E i \in 1..Len(pOut.result.passed_rules) : pOut.result.passed_rules[i].id = "ws_004"
  /\ \E i \in 1..Len(pOut.result.violations) : pOut.result.violations[i].id = "ws_002"
  /\ \E i \in 1..Len(pOut.result.violations) : pOut.result.violations[i].id = "ws_005"
  /\ \A i \in 1..Len(pOut.result.violations) : pOut.result.violations[i].id # "ws_006"

(***************************************************************************)
(* Properties of checkCompliance's result                                  *)
(***************************************************************************)
\* checkCompliance has returned a result
Resulted == cpc = "done" /\ cOut.kind = "result"

\* the fixed guidance for a page type, and the urgent banner
Guidance(pageType) ==
  CASE pageType = "homepage" ->
         << <<"Ensure RTO number is prominently displayed on homepage">>,
            <<"Include clear contact information and privacy policy link">> >>
    [] pageType = "course" ->
         << <<"Use \"unit of competency\" instead of \"course\" when referring to unit codes">>,
            <<"Include RPL availability information">> >>
    [] OTHER -> <<>>

UrgentBanner ==
  <<"Immediate action required: Address all critical violations before ASQA audit">>

\* the recommendations before duplicates are removed: those of the violations
\* in violation order, the guidance, and the banner if a violation is critical
Collected(result) ==
  LET vs == result.violations
      texts == [i \in 1..Len(vs) |-> vs[i].recommendation]
  IN SelectSeq(texts, LAMBDA r : r # <<>>)
     \o Guidance(result.page_type)
     \o (IF \E i \in 1..Len(vs) : vs[i].severity = "critical" THEN <<UrgentBanner>> ELSE <<>>)

\* the position at which r first occurs in list
FirstAt(list, r) == CHOOSE i \in 1..Len(list) : list[i] = r /\ \A j \in 1..(i - 1) : list[j] # r

\* C24: the recommendations of a result have no duplicates, are the strings
\* collected from the violations, the page type's guidance and the banner
\* (present if and only if a violation is critical), and stand in the order of
\* their first occurrences; with includeRecommendations = false they are empty.
C24_RecommendationsOrderedUnique ==
  Resulted =>
    LET recs == cOut.result.recommendations
        all == Collected(cOut.result)
    IN IF ~cIn.options.includeRecommendations THEN recs = <<>>
       ELSE /\ \A i, j \in 1..Len(recs) : i # j => recs[i] # recs[j]
            /\ {recs[i] : i \in 1..Len(recs)} = {all[i] : i \in 1..Len(all)}
            /\ \A i, j \in 1..Len(recs) :
                 i < j => FirstAt(all, recs[i]) < FirstAt(all, recs[j])
            /\ (UrgentBanner \in {recs[i] : i \in 1..Len(recs)}) <=>
                 (\E i \in 1..Len(cOut.result.violations) :
                    cOut.result.violations[i].severity = "critical")

\* C24 witness: a homepage with repeated rule violations and an AI violation
\* whose recommendation is the second guidance text; the text appears once, before
\* the first guidance text, and the banner comes last
C24_Witness ==
  /\ Resulted
  /\ cIn.options.includeRecommendations
  /\ cIn.options.pageType = "homepage"
  /\ LET recs == cOut.result.recommendations
         all == Collected(cOut.result)
     IN /\ Len(recs) + 2 < Len(all)
        /\ recs[Len(recs)] = UrgentBanner
        /\ \E i \in 1..Len(recs) :
             /\ i + 1 <= Len(recs)
             /\ recs[i] = <<"Include clear contact information and privacy policy link">>
             /\ recs[i + 1] = <<"Ensure RTO number is prominently displayed on homepage">>

\* the router call of checkCompliance resolved, and checkCompliance is over
AIAnswered ==
  /\ cpc = "done"
  /\ rpc[EngineCall] = "done"
  /\ outcome[EngineCall].kind = "result"

\* the text the router returned
AnswerText == outcome[EngineCall].result.text

\* the fallback judgment for a text: no violations, the neutral score, and the
\* first 500 characters of the text, at most, as the only recommendation
IsFallbackJudgment(j, text) ==
  /\ j.present
  /\ j.violations = [k |-> "list", items |-> <<>>]
  /\ "compliance_score" \in DOMAIN j
  /\ j.compliance_score = 75
  /\ "recommendations" \in DOMAIN j
  /\ Len(j.recommendations) = 1
  /\ j.recommendations[1].of = text
  /\ j.recommendations[1].start = 0
  /\ j.recommendations[1].end = (IF length(text) < 500 THEN length(text) ELSE 500)

\* the result is the one of the rules alone, with the metadata of the AI call
RuleOnlyWithMetadata ==
  /\ Resulted
  /\ cOut.result.violations = basic.violations
  /\ cOut.result.compliance_score =
       calculateComplianceScore(basic, rules.compliance_thresholds.severity_weights)
  /\ cOut.result.ai_analysis.present

\* C25: when the router returns a text that cannot be parsed into the expected
\* judgment, performAIAnalysis builds the fallback judgment, and checkCompliance
\* returns the violations and the score of the rules alone with ai_analysis
\* present.
C25_MalformedAIResponse ==
  (AIAnswered /\ AnswerText # TextJudgment) =>
     /\ IsFallbackJudgment(aiResults, AnswerText)
     /\ RuleOnlyWithMetadata

\* texts JSON.parse rejects
NotJSON == {TextProse, TextLongProse, ""}

\* what holds of C25: a text that JSON.parse rejects gives the fallback judgment
\* and the result of the rules alone with ai_analysis present
ParseErrorGivesFallbackJudgment ==
  (AIAnswered /\ AnswerText \in NotJSON) =>
     /\ IsFallbackJudgment(aiResults, AnswerText)
     /\ RuleOnlyWithMetadata

\* a text of 1200 characters was cut to 500
LongTextCut ==
  /\ AIAnswered
  /\ AnswerText = TextLongProse
  /\ aiResults.recommendations[1].end = 500
  /\ Len(basic.violations) > 0

\* a violation that reports a required disclaimer or web element missing
ReportsMissing(v) == v.location = "entire_page" /\ v.text_found = ""

RouterCalled == rpc[EngineCall] # "idle"

\* checkCompliance is over and had rules to evaluate
EvaluatedAndOver == cpc = "done" /\ cIn.given /\ rules.loaded /\ rules.wellFormed

\* C29: checkCompliance calls callWithFailover at most once, after the rules
\* were evaluated, and exactly when useAI is true and the claude or the openai
\* client is configured, whatever the COMPLIANCE role resolves to; with useAI
\* false the router is never called and its usage statistics stay as they were.
C29_RouterCalledIffUseAIAndConfigured ==
  /\ [](EvaluatedAndOver =>
          (RouterCalled <=>
             cIn.options.useAI /\ (configured["claude"] \/ configured["openai"])))
  /\ []((cIn.given /\ ~cIn.options.useAI) =>
          ~RouterCalled /\ usageStats = [k \in {} |-> 0] /\ totalCost = 0)
  /\ []((RouterCalled /\ cpc # "done") => cpc = "awaitAI")
  /\ [][(~RouterCalled /\ RouterCalled') =>
          /\ rrole'[EngineCall] = "COMPLIANCE"
          /\ rules'.loaded /\ rules'.wellFormed
          /\ basic' = performBasicChecks(cIn'.content, rules')]_vars
  /\ [][RouterCalled => (RouterCalled' /\ rrole'[EngineCall] = rrole[EngineCall])]_vars

\* C29 witness: the COMPLIANCE role resolves to deepseek alone, which is not
\* configured, while claude is: the router was called and found no provider
C29_Witness ==
  /\ EvaluatedAndOver
  /\ cIn.options.useAI
  /\ roles["COMPLIANCE"] = [primary |-> "deepseek_reasoning", fallback |-> Null]
  /\ ~configured["deepseek"]
  /\ configured["claude"]
  /\ RouterCalled
  /\ outcome[EngineCall] = Thrown(NoProviderAvailable("COMPLIANCE"))
  /\ Resulted

\* the other way round: deepseek alone is configured and would serve the role,
\* and the router is not called
RoleServedButNotCalled ==
  /\ EvaluatedAndOver
  /\ cIn.options.useAI
  /\ roles["COMPLIANCE"] = [primary |-> "deepseek_reasoning", fallback |-> Null]
  /\ configured["deepseek"]
  /\ ~RouterCalled

(***************************************************************************)
(* Properties of the router's construction                                 *)
(***************************************************************************)
\* new ModelRouter() is over
Constructed == pIn.op = "constructor" /\ pOut.done

\* the model entry has a model_ref the registry does not resolve
Unresolvable(registry, modelRef) ==
  /\ modelRef.given
  /\ \/ ~registry.hasModels
     \/ modelRef.provider \notin DOMAIN registry.models
     \/ modelRef.ref \notin registry.models[modelRef.provider]

\* C26: construction never fails because a model_ref cannot be resolved: it
\* completes, and every model entry whose model_ref the registry does not
\* resolve (a registry file or a models table that is missing or empty included)
\* was warned about and is left without a concrete id.
C26_ConstructionNeverFails ==
  Constructed =>
    /\ ~pOut.threw
    /\ \A n \in 1..Len(pIn.config.models) :
         Unresolvable(pIn.registry, pIn.config.models[n]) =>
           pOut.warned[n] /\ pOut.model_id[n] = Null

\* what holds of C26: with a models table in the configuration and one in the
\* registry, construction completes and warns of every unresolved model_ref
ConstructionCompletesWithTables ==
  (Constructed /\ pIn.config.hasModels /\ pIn.registry.hasModels) =>
    /\ ~pOut.threw
    /\ \A n \in 1..Len(pIn.config.models) :
         Unresolvable(pIn.registry, pIn.config.models[n]) =>
           pOut.warned[n] /\ pOut.model_id[n] = Null

\* a registry with tables, one model resolved and one warned about
ResolvedAndWarned ==
  /\ Constructed
  /\ ~pOut.threw
  /\ \E n, m \in 1..Len(pOut.model_id) : pOut.warned[n] /\ pOut.model_id[m] # Null

(***************************************************************************)
(* Termination of findMatches                                              *)
(***************************************************************************)
\* C27: findMatches returns, for every text and every rule, rules whose flags
\* lack 'g' and patterns that match the empty string included.
C27_FindMatchesTerminates == (pIn.op = "findMatchesLoop") ~> pOut.done

\* what holds of C27: findMatches returns when the flags in use hold 'g' and the
\* pattern does not match the empty string
TerminatesWithGlobalFlag ==
  (pIn.op = "findMatchesLoop" /\ global(flagsOf(pIn)) /\ pIn.pattern # EmptyMatchPattern)
    ~> pOut.done

\* and what it returns then is the list of the matches in text order
ReturnsTheMatches ==
  (pIn.op = "findMatchesLoop" /\ pOut.done) =>
     pOut.matches =
       findMatches(pIn.text, Rule("cv_001", "employment_guarantee", "critical", pIn.pattern, FALSE))

(***************************************************************************)
(* Properties of checkMultiplePages                                        *)
(***************************************************************************)
\* checkMultiplePages is running or over
InBatch == pIn.op = "checkMultiplePages" /\ "results" \in DOMAIN pOut

\* the extraction or the compliance check of the page throws
PageThrows(url) ==
  \/ url \in {"https://rto.example/down", "https://rto.example/untitled"}
  \/ pIn.rulesFile.kind # "valid"

\* the entry of a page that threw
IsErrorEntry(e) ==
  /\ e.status = "ERROR"
  /\ e.compliance_score = 0
  /\ "error" \in DOMAIN e

BatchReturns ==
  (pIn.op = "checkMultiplePages" /\ pOut.done) => Len(pOut.results) = Len(pIn.urls)

====
